---- MODULE Spec2Model ----
(***************************************************************************)
(* The A2A coordinator workflow engine, its five agents and the shared     *)
(* task store (Redis), as a state machine.                                 *)
(*                                                                         *)
(* Processes: one run_workflow coroutine per task in the coordinator, one  *)
(* process per agent (its handler runs to completion before the next       *)
(* request is read), and the store, whose get and set are each atomic.     *)
(* update_state and add_log are a get followed by a set: two steps.        *)
(***************************************************************************)
EXTENDS Integers, Sequences, FiniteSets, TLC

(***************************************************************************)
(* Bounds of the model.                                                    *)
(***************************************************************************)
\* largest max_iterations a caller of start_research passes
MaxIter == 3

\* the payloads a client posts in one behaviour
MaxPosts == 2

\* task ids (uuid4 values): every start_research draws a fresh one
TaskIds == {"t1", "t2"}

(***************************************************************************)
(* Optional values: None is <<>>, a present value x is <<x>>.              *)
(***************************************************************************)
None == <<>>

Some(x) == <<x>>

\* a Python dict with no key
EmptyDict == [k \in {} |-> 0]

\* `d.get(key, default)`
Get(d, key, default) == IF key \in DOMAIN d THEN d[key] ELSE default

\* a write of the updates alone in place of the merged record
DictUpdate_overwrite(state, updates) == updates

\* `state.update(updates)`: the keys of updates replaced, the others kept
DictUpdate(state, updates) ==
    [k \in (DOMAIN state) \cup (DOMAIN updates) |->
        IF k \in DOMAIN updates THEN updates[k] ELSE state[k]]

\* `x or {}` on an optional dict
OrEmpty(opt) == IF opt = None THEN EmptyDict ELSE opt[1]

\* `seq[:n]`
Take(seq, n) == SubSeq(seq, 1, IF Len(seq) < n THEN Len(seq) ELSE n)

\* n copies of x
RECURSIVE Repeat(_, _)
Repeat(x, n) == IF n <= 0 THEN <<>> ELSE <<x>> \o Repeat(x, n - 1)

\* `x in seq`
InSeq(x, seq) == \E i \in 1..Len(seq) : seq[i] = x

Min(a, b) == IF a < b THEN a ELSE b

(***************************************************************************)
(* shared/a2a_models.py: identifiers, directory, message status.           *)
(***************************************************************************)
AGENT_URIS ==
    [coordinator        |-> "agent://coordinator",
     topic_refiner      |-> "agent://topic-refiner",
     question_architect |-> "agent://question-architect",
     search_strategist  |-> "agent://search-strategist",
     data_analyst       |-> "agent://data-analyst",
     report_writer      |-> "agent://report-writer"]

\* the static directory, agent URI -> service address
AGENT_SERVICES ==
    [u \in {AGENT_URIS.coordinator, AGENT_URIS.topic_refiner,
            AGENT_URIS.question_architect, AGENT_URIS.search_strategist,
            AGENT_URIS.data_analyst, AGENT_URIS.report_writer} |->
        CASE u = AGENT_URIS.coordinator        -> "http://coordinator-service:8006"
          [] u = AGENT_URIS.topic_refiner      -> "http://topic-refiner-service:8001"
          [] u = AGENT_URIS.question_architect -> "http://question-architect-service:8002"
          [] u = AGENT_URIS.search_strategist  -> "http://search-strategist-service:8003"
          [] u = AGENT_URIS.data_analyst       -> "http://data-analyst-service:8004"
          [] u = AGENT_URIS.report_writer      -> "http://report-writer-service:8005"]

MessageStatus == {"pending", "processing", "completed", "failed"}

\* the five agent processes
AgentIds ==
    {AGENT_URIS.topic_refiner, AGENT_URIS.question_architect,
     AGENT_URIS.search_strategist, AGENT_URIS.data_analyst,
     AGENT_URIS.report_writer}

(***************************************************************************)
(* Content variants (A2AContent subclasses) as records with their fields.  *)
(***************************************************************************)
A2AActionRequest(action, parameters) ==
    [type |-> "ActionRequest", action |-> action, parameters |-> parameters,
     context |-> EmptyDict]

A2AActionResponse(action, result, status, error) ==
    [type |-> "ActionResponse", action |-> action, result |-> result,
     status |-> status, error |-> error, metadata |-> EmptyDict]

A2ACapabilityRequest == [type |-> "CapabilityRequest"]

A2AError(code, message) ==
    [type |-> "Error", code |-> code, message |-> message, details |-> None]

A2AStatusUpdate(status) ==
    [type |-> "StatusUpdate", status |-> status, progress |-> None,
     message |-> None]

\* capabilities: the names of the actions; agent: the A2AAgent identity
A2ACapabilityResponse(capabilities, agent) ==
    [type |-> "CapabilityResponse", capabilities |-> capabilities,
     agent |-> agent]

\* datetime.utcnow().isoformat() at the moment an envelope is built
Now == "now"

\* the envelope; reply_to is optional
A2AMessage(id, to, from_agent, content, reply_to) ==
    [type |-> "Message", id |-> id, to |-> to, from_agent |-> from_agent,
     content |-> content, reply_to |-> reply_to, timestamp |-> Now,
     metadata |-> EmptyDict]

(***************************************************************************)
(* Encoding and decoding of envelopes.  A payload is a function from the   *)
(* keys of the JSON object to their values; an optional value is None for  *)
(* null and Some(x) for x, as in the envelope.                             *)
(***************************************************************************)
\* Field(alias=...): the key of a field on the wire
Alias(name) ==
    CASE name = "type" -> "@type"
      [] name = "from_agent" -> "from"
      [] OTHER -> name

\* the Optional[...] fields of the envelope and of each content variant
Nullable(type) ==
    CASE type = "Message" -> {"reply_to"}
      [] type = "ActionResponse" -> {"error"}
      [] type = "Error" -> {"details"}
      [] type = "StatusUpdate" -> {"progress", "message"}
      [] OTHER -> {}

\* a dump that writes the discriminator and nothing else of the content
BaseModel_model_dump_type_only(obj, by_alias, exclude_none) ==
    IF obj.type = "Message"
    THEN [k \in {IF by_alias THEN Alias(f) ELSE f : f \in DOMAIN obj} |->
            obj[CHOOSE f \in DOMAIN obj : (IF by_alias THEN Alias(f) ELSE f) = k]]
    ELSE [k \in {IF by_alias THEN "@type" ELSE "type"} |-> obj.type]

\* BaseModel.model_dump / model_dump_json of one object: its fields under
\* their aliases or names, without the None ones when exclude_none
BaseModel_model_dump(obj, by_alias, exclude_none) ==
    LET kept == {f \in DOMAIN obj :
                    ~(exclude_none /\ f \in Nullable(obj.type) /\ obj[f] = None)}
        Key(f) == IF by_alias THEN Alias(f) ELSE f
    IN [k \in {Key(f) : f \in kept} |-> obj[CHOOSE f \in kept : Key(f) = k]]

\* A2AMessage.model_dump: the envelope's dump with the content dumped by
\* the content object itself
model_dump(e, by_alias, exclude_none) ==
    [BaseModel_model_dump(e, by_alias, exclude_none) EXCEPT
        !["content"] = BaseModel_model_dump(e.content, by_alias, exclude_none)]

\* message_dict of send_message: the payload the coordinator posts
message_dict(e) ==
    LET d == ("@type" :> e.type) @@ ("id" :> e.id) @@ ("to" :> e.to) @@
             ("from" :> e.from_agent) @@
             ("content" :> BaseModel_model_dump(e.content, TRUE, TRUE)) @@
             ("timestamp" :> e.timestamp) @@ ("metadata" :> e.metadata)
    IN IF e.reply_to # None /\ e.reply_to # Some("")
       THEN d @@ ("reply_to" :> e.reply_to)
       ELSE d

\* the response of POST /message (response_model=A2AMessage): serialized by
\* alias, None fields included, the content by its own variant
serialize_response(e) ==
    [BaseModel_model_dump(e, TRUE, FALSE) EXCEPT
        !["content"] = BaseModel_model_dump(e.content, TRUE, FALSE)]

\* populate_by_name: a field is read under its alias, else under its name
Lookup(d, name) ==
    IF Alias(name) \in DOMAIN d THEN Some(d[Alias(name)])
    ELSE IF name \in DOMAIN d THEN Some(d[name])
    ELSE None

\* per content variant: the fields without a default, and the defaults
ContentFields ==
    [ActionRequest |->
        [required |-> {"action"},
         defaults |-> [parameters |-> EmptyDict, context |-> EmptyDict]],
     ActionResponse |->
        [required |-> {"action", "result", "status"},
         defaults |-> [error |-> None, metadata |-> EmptyDict]],
     CapabilityRequest |-> [required |-> {}, defaults |-> EmptyDict],
     CapabilityResponse |->
        [required |-> {"capabilities", "agent"}, defaults |-> EmptyDict],
     Error |->
        [required |-> {"code", "message"}, defaults |-> [details |-> None]],
     StatusUpdate |->
        [required |-> {"status"},
         defaults |-> [progress |-> None, message |-> None]]]

DecodeError(msg) == [ok |-> FALSE, error |-> msg]

\* V(**v) for the content class V: the Literal type, the required fields,
\* the MessageStatus enum
ContentValidate(V, v) ==
    LET fields == ContentFields[V]
    IN IF Lookup(v, "type") # Some(V)
       THEN DecodeError("Input should be '" \o V \o "'")
       ELSE IF \E f \in fields.required : f \notin DOMAIN v
       THEN DecodeError("Field required")
       ELSE IF "status" \in fields.required /\ v["status"] \notin MessageStatus
       THEN DecodeError("Input should be 'pending', 'processing', 'completed' or 'failed'")
       ELSE [ok |-> TRUE,
             value |-> [f \in {"type"} \cup fields.required \cup DOMAIN fields.defaults |->
                          IF f = "type" THEN V
                          ELSE IF f \in DOMAIN v THEN v[f]
                          ELSE fields.defaults[f]]]

\* parse_content with a fixed variant in place of the error
parse_content_fallback(v) ==
    LET at == IF "@type" \in DOMAIN v THEN v["@type"] ELSE ""
        content_type == IF at # "" THEN at
                        ELSE IF "type" \in DOMAIN v THEN v["type"] ELSE "None"
    IN IF content_type \in DOMAIN ContentFields
       THEN ContentValidate(content_type, v)
       ELSE [ok |-> TRUE, value |-> A2ACapabilityRequest]

\* A2AMessage.parse_content on a dict: dispatch on v.get('@type') or
\* v.get('type')
parse_content(v) ==
    LET at == IF "@type" \in DOMAIN v THEN v["@type"] ELSE ""
        content_type == IF at # "" THEN at
                        ELSE IF "type" \in DOMAIN v THEN v["type"] ELSE "None"
    IN IF content_type \in DOMAIN ContentFields
       THEN ContentValidate(content_type, v)
       ELSE DecodeError("Unknown content type: " \o content_type)

\* A2AMessage(**d), and the validation of the body of POST /message
A2AMessage_validate(d) ==
    LET type == IF Lookup(d, "type") = None THEN "Message" ELSE Lookup(d, "type")[1]
    IN IF type # "Message" THEN DecodeError("Input should be 'Message'")
       ELSE IF \E f \in {"id", "to", "from_agent", "content"} : Lookup(d, f) = None
       THEN DecodeError("Field required")
       ELSE LET content == parse_content(d["content"])
            IN IF ~content.ok THEN content
               ELSE [ok |-> TRUE,
                     message |->
                        [type |-> "Message", id |-> Lookup(d, "id")[1],
                         to |-> Lookup(d, "to")[1],
                         from_agent |-> Lookup(d, "from_agent")[1],
                         content |-> content.value,
                         reply_to |-> IF "reply_to" \in DOMAIN d
                                      THEN d["reply_to"] ELSE None,
                         timestamp |-> IF "timestamp" \in DOMAIN d
                                       THEN d["timestamp"] ELSE Now,
                         metadata |-> IF "metadata" \in DOMAIN d
                                      THEN d["metadata"] ELSE EmptyDict]]

(***************************************************************************)
(* coordinator/coordinator_a2a.py: the pipeline run_workflow drives.       *)
(***************************************************************************)
\* quality_score is kept in hundredths: 0.8 is 80, 1.0 is 100
QUALITY_THRESHOLD == 80

FINDINGS_THRESHOLD == 10

DEFAULT_MAX_ITERATIONS == 2

\* the "max_results" parameter run_workflow passes to execute_search
MAX_RESULTS == 2

Actions ==
    {"refine_topic", "generate_questions", "execute_search",
     "analyze_results", "generate_report"}

\* per step: the agent called and the status / current_agent written before
run_workflow_steps ==
    [refine_topic |->
        [agent_uri |-> AGENT_URIS.topic_refiner,
         status |-> "refining_topic", current_agent |-> "Dr. Topic Refiner"],
     generate_questions |->
        [agent_uri |-> AGENT_URIS.question_architect,
         status |-> "generating_questions",
         current_agent |-> "Prof. Question Architect"],
     execute_search |->
        [agent_uri |-> AGENT_URIS.search_strategist,
         status |-> "searching", current_agent |-> "Agent Search Strategist"],
     analyze_results |->
        [agent_uri |-> AGENT_URIS.data_analyst,
         status |-> "analyzing", current_agent |-> "Dr. Data Analyst"],
     generate_report |->
        [agent_uri |-> AGENT_URIS.report_writer,
         status |-> "generating_report", current_agent |-> "Dr. Report Writer"]]

\* the parameters of the ActionRequest of a step
StepParameters(t, action) ==
    IF action = "execute_search"
    THEN [task_id |-> t, max_results |-> MAX_RESULTS]
    ELSE [task_id |-> t]

\* StepUpdates without the current_agent of a step
StepUpdates_status_only(step, error_msg) ==
    CASE step = "completed" -> [status |-> "completed"]
      [] step = "failed"    -> [status |-> "failed", error |-> Some(error_msg)]
      [] OTHER -> [status |-> run_workflow_steps[step].status]

\* a coordinator that marks the task completed before it asks for the report
StepUpdates_completed_before_report(step, error_msg) ==
    CASE step = "completed" -> [status |-> "completed"]
      [] step = "failed"    -> [status |-> "failed", error |-> Some(error_msg)]
      [] step = "generate_report" ->
            [status |-> "completed",
             current_agent |-> run_workflow_steps[step].current_agent]
      [] OTHER -> [status |-> run_workflow_steps[step].status,
                   current_agent |-> run_workflow_steps[step].current_agent]

\* the dict run_workflow hands to update_state at a position
StepUpdates(step, error_msg) ==
    CASE step = "completed" -> [status |-> "completed"]
      [] step = "failed"    -> [status |-> "failed", error |-> Some(error_msg)]
      [] OTHER -> [status |-> run_workflow_steps[step].status,
                   current_agent |-> run_workflow_steps[step].current_agent]

\* while iteration <= max_iterations
LoopTest_inclusive(iteration, max_iterations) ==
    IF iteration <= max_iterations THEN "generate_questions"
    ELSE "generate_report"

\* `while iteration < max_iterations`: the step the loop test leads to
LoopTest(iteration, max_iterations) ==
    IF iteration < max_iterations THEN "generate_questions"
    ELSE "generate_report"

\* should_continue without its findings clause
should_continue_no_findings(state) ==
    IF Get(state, "iteration", 0) >= Get(state, "max_iterations", DEFAULT_MAX_ITERATIONS)
    THEN "finalize"
    ELSE IF Get(state, "quality_score", 0) >= QUALITY_THRESHOLD
    THEN "finalize"
    ELSE "continue"

\* should_continue without its quality clause
should_continue_no_quality(state) ==
    IF Get(state, "iteration", 0) >= Get(state, "max_iterations", DEFAULT_MAX_ITERATIONS)
    THEN "finalize"
    ELSE IF Len(Get(state, "key_findings", <<>>)) >= FINDINGS_THRESHOLD
    THEN "finalize"
    ELSE "continue"

\* the continuation policy, on the dict get_state returned
should_continue(state) ==
    IF Get(state, "iteration", 0) >= Get(state, "max_iterations", DEFAULT_MAX_ITERATIONS)
    THEN "finalize"
    ELSE IF Get(state, "quality_score", 0) >= QUALITY_THRESHOLD
    THEN "finalize"
    ELSE IF Len(Get(state, "key_findings", <<>>)) >= FINDINGS_THRESHOLD
    THEN "finalize"
    ELSE "continue"

\* what call_agent_action makes of the content of the response envelope:
\* [ok |-> TRUE, result] when it returns, [ok |-> FALSE, exc] when it raises
call_agent_action_result(agent_uri, action, content) ==
    IF content.type = "ActionResponse"
    THEN IF content.status = "completed"
         THEN [ok |-> TRUE, result |-> content.result]
         ELSE [ok |-> FALSE,
               exc |-> "Action " \o action \o " failed: " \o
                       (IF content.error = None \/ content.error = Some("")
                        THEN "Action failed" ELSE content.error[1])]
    ELSE IF content.type = "Error"
    THEN [ok |-> FALSE, exc |-> "Agent error: " \o content.message]
    ELSE IF "status" \in DOMAIN content
    THEN IF content.status = "completed"
         THEN [ok |-> TRUE, result |-> Get(content, "result", EmptyDict)]
         ELSE [ok |-> FALSE,
               exc |-> "Action " \o action \o " failed: " \o
                       Get(content, "error", "Action failed")]
    ELSE [ok |-> FALSE, exc |-> "Unexpected response type from " \o agent_uri]

\* the message of the except clause of run_workflow
WorkflowError(exc) == "Workflow error: " \o exc

\* a first record that is already marked as running
initial_state_started(t, topic, max_iterations) ==
    [task_id |-> t, original_topic |-> topic, topic |-> topic,
     research_questions |-> <<>>, search_queries |-> <<>>,
     search_results |-> <<>>, key_findings |-> <<>>, iteration |-> 0,
     max_iterations |-> max_iterations, quality_score |-> 0,
     final_report |-> "", status |-> "started", current_agent |-> "",
     agent_logs |-> <<>>, error |-> None, protocol |-> "A2A v1.0"]

\* the record start_research creates
initial_state(t, topic, max_iterations) ==
    [task_id |-> t, original_topic |-> topic, topic |-> topic,
     research_questions |-> <<>>, search_queries |-> <<>>,
     search_results |-> <<>>, key_findings |-> <<>>, iteration |-> 0,
     max_iterations |-> max_iterations, quality_score |-> 0,
     final_report |-> "", status |-> "initialized", current_agent |-> "",
     agent_logs |-> <<>>, error |-> None, protocol |-> "A2A v1.0"]

(***************************************************************************)
(* State.                                                                  *)
(***************************************************************************)
VARIABLES
    store,     \* Redis: task id -> optional task record (key task:<id>)
    co,        \* per task: the run_workflow coroutine (position and locals)
    reqs,      \* requests sent to an agent's /message, not yet read by it
    ag,        \* per agent process: its handler's position and locals
    resp,      \* per task: the response envelope delivered, if any
    inflight,  \* calls the coordinator sent and still awaits
    calls,     \* per task: the agent calls issued so far, in order
    replies,   \* per task: what each finished call ended with, in order
    codec,     \* an envelope on its way through an encoder and the decoder
    ext,       \* a client of an agent's /message other than the coordinator
    created,   \* the ids of the envelopes created so far
    services   \* AGENT_SERVICES as loaded: agent URI -> base URL

vars == <<store, co, reqs, ag, resp, inflight, calls, replies, codec, ext,
          created, services>>

NoCoroutine ==
    [pc |-> "none", step |-> "", state |-> None, iteration |-> 0,
     max_iterations |-> 0, rmw |-> None, error_msg |-> ""]

IdleAgent == [pc |-> "idle"]

\* nothing being encoded or decoded
NoCodec == [pc |-> "none"]

\* no client has posted anything
NoClient == [pc |-> "idle", n |-> 0]

\* nothing started
Fresh ==
    /\ store = [t \in TaskIds |-> None]
    /\ co = [t \in TaskIds |-> NoCoroutine]
    /\ reqs = {}
    /\ ag = [a \in AgentIds |-> IdleAgent]
    /\ resp = [t \in TaskIds |-> None]
    /\ inflight = {}
    /\ calls = [t \in TaskIds |-> <<>>]
    /\ replies = [t \in TaskIds |-> <<>>]
    /\ codec = NoCodec
    /\ ext = NoClient
    /\ created = {}

Init == Fresh /\ services = AGENT_SERVICES

\* get_state: redis GET and json.loads
get_state(t) == store[t]

\* GET /task/{task_id}: the record, or 404 when get_state returns nothing
get_task_status(t) ==
    LET state == get_state(t)
    IN IF state = None \/ state = Some(EmptyDict)
       THEN [http |-> 404, detail |-> "Task not found"]
       ELSE [http |-> 200, body |-> state[1]]

\* one POST to /message: call number n of the coroutine of a task, or the
\* n-th POST of the client
Exchange(who, n) == who \o "#" \o ToString(n)

\* str(uuid.uuid4()) as drawn by process p for the envelope it creates in
\* exchange x (a process creates one envelope per exchange); two draws are
\* never equal
uuid4(p, x) == p \o "/" \o x

(***************************************************************************)
(* Coordinator actions.                                                    *)
(***************************************************************************)
\* an except clause that posts the request of the step again
Raise_retry(c, exc) == [c EXCEPT !.pc = "send"]

\* an exception no except clause catches: the coroutine ends where it is
Raise_uncaught(c, exc) == [c EXCEPT !.pc = "raised"]

\* the except clause of run_workflow: next comes update_state(failed, error)
Raise(c, exc) ==
    [c EXCEPT !.pc = "update_get", !.step = "failed",
              !.error_msg = WorkflowError(exc)]

\* AfterCall with the search step left out of a round
AfterCall_skip_search(c, action) ==
    CASE action = "refine_topic" ->
            [c EXCEPT !.pc = "update_get", !.iteration = 0,
                      !.max_iterations = c.state[1].max_iterations,
                      !.step = LoopTest(0, c.state[1].max_iterations)]
      [] action = "generate_questions" ->
            [c EXCEPT !.pc = "update_get", !.step = "analyze_results"]
      [] action = "execute_search" ->
            [c EXCEPT !.pc = "update_get", !.step = "analyze_results"]
      [] action = "analyze_results" -> [c EXCEPT !.pc = "decide"]
      [] action = "generate_report" ->
            [c EXCEPT !.pc = "update_get", !.step = "completed"]

\* the position a successful call of `action` leads to
AfterCall(c, action) ==
    CASE action = "refine_topic" ->
            IF c.state = None
            THEN Raise(c, "'NoneType' object has no attribute 'get'")
            ELSE LET mi == Get(c.state[1], "max_iterations", DEFAULT_MAX_ITERATIONS)
                 IN [c EXCEPT !.pc = "update_get", !.iteration = 0,
                              !.max_iterations = mi, !.step = LoopTest(0, mi)]
      [] action = "generate_questions" ->
            [c EXCEPT !.pc = "update_get", !.step = "execute_search"]
      [] action = "execute_search" ->
            [c EXCEPT !.pc = "update_get", !.step = "analyze_results"]
      [] action = "analyze_results" -> [c EXCEPT !.pc = "decide"]
      [] action = "generate_report" ->
            [c EXCEPT !.pc = "update_get", !.step = "completed"]

\* a send that does not await the response: on to the next step at once
AfterSend_no_await(c) == AfterCall(c, c.step)

\* the position after the request of a step was posted: the await
AfterSend(c) == [c EXCEPT !.pc = "await"]

\* POST /start_research: write the record, schedule run_workflow, return
start_research(t, topic, max_iterations) ==
    /\ co[t].pc = "none"
    /\ store' = [store EXCEPT ![t] =
                    Some(DictUpdate(OrEmpty(get_state(t)),
                                    initial_state(t, topic, max_iterations)))]
    /\ co' = [co EXCEPT ![t] = [NoCoroutine EXCEPT !.pc = "begin"]]
    /\ UNCHANGED <<reqs, ag, resp, inflight, calls, replies, codec, ext, created, services>>

\* coordinator.run_workflow(task_id) scheduled by a caller that wrote no
\* record under the task id
run_workflow(t) ==
    /\ co[t].pc = "none"
    /\ store[t] = None
    /\ co' = [co EXCEPT ![t] = [NoCoroutine EXCEPT !.pc = "begin"]]
    /\ UNCHANGED <<store, reqs, ag, resp, inflight, calls, replies, codec, ext, created, services>>

\* run_workflow, first lines: state = get_state(task_id)
run_workflow_begin(t) ==
    /\ co[t].pc = "begin"
    /\ co' = [co EXCEPT ![t] = [@ EXCEPT !.pc = "update_get",
                                         !.step = "refine_topic",
                                         !.state = get_state(t)]]
    /\ UNCHANGED <<store, reqs, ag, resp, inflight, calls, replies, codec, ext, created, services>>

\* update_state, first half: state = self.get_state(task_id) or {}
update_state_get(t) ==
    /\ co[t].pc = "update_get"
    /\ co' = [co EXCEPT ![t] = [@ EXCEPT !.pc = "update_set",
                                         !.rmw = Some(OrEmpty(get_state(t)))]]
    /\ UNCHANGED <<store, reqs, ag, resp, inflight, calls, replies, codec, ext, created, services>>

\* update_state, second half: state.update(updates); redis SET
update_state_set(t) ==
    /\ co[t].pc = "update_set"
    /\ store' = [store EXCEPT ![t] =
                    Some(DictUpdate(co[t].rmw[1],
                                    StepUpdates(co[t].step, co[t].error_msg)))]
    /\ co' = [co EXCEPT ![t] =
                [@ EXCEPT !.rmw = None,
                          !.pc = IF co[t].step \in {"completed", "failed"}
                                 THEN "done" ELSE "send"]]
    /\ UNCHANGED <<reqs, ag, resp, inflight, calls, replies, codec, ext, created, services>>

\* call_agent_action up to the POST in send_message
send_message(t) ==
    /\ co[t].pc = "send"
    /\ LET action == co[t].step
           uri == run_workflow_steps[action].agent_uri
           x == Exchange(t, Len(calls[t]) + 1)
           message_id == uuid4(AGENT_URIS.coordinator, x)
       IN /\ created' = created \cup {message_id}
          /\ IF uri \notin DOMAIN services
             THEN /\ co' = [co EXCEPT ![t] = Raise(@, "Unknown agent URI: " \o uri)]
                  /\ UNCHANGED <<reqs, inflight, calls>>
             ELSE
               /\ reqs' = reqs \cup
                    {[task |-> t, to |-> uri, from |-> AGENT_URIS.coordinator,
                      callno |-> Len(calls[t]) + 1, conn |-> x, id |-> message_id,
                      content |-> A2AActionRequest(action, StepParameters(t, action))]}
               /\ inflight' = inflight \cup
                    {[task |-> t, callno |-> Len(calls[t]) + 1]}
               /\ calls' = [calls EXCEPT ![t] =
                              Append(@, [action |-> action, to |-> uri])]
               /\ co' = [co EXCEPT ![t] = AfterSend(@)]
    /\ UNCHANGED <<store, ag, resp, replies, codec, ext, services>>

\* the call a coroutine awaits
AwaitedCall(t) == [task |-> t, callno |-> Len(calls[t])]

\* the ConnectError re-raised as it is, without the agent's URI
ConnectErrorMessage_reraised(agent_uri) == "All connection attempts failed"

\* raise Exception(f"Cannot connect to agent {agent_uri}")
ConnectErrorMessage(agent_uri) == "Cannot connect to agent " \o agent_uri

\* httpx.ConnectError: the agent's address refuses the connection
connect_error(t) ==
    /\ co[t].pc = "await"
    /\ \E r \in reqs :
          /\ r.task = t /\ r.callno = Len(calls[t])
          /\ reqs' = reqs \ {r}
          /\ co' = [co EXCEPT ![t] = Raise(@, ConnectErrorMessage(r.to))]
    /\ inflight' = inflight \ {AwaitedCall(t)}
    /\ replies' = [replies EXCEPT ![t] = Append(@, [kind |-> "ConnectError", status |-> "",
                                               result |-> EmptyDict])]
    /\ UNCHANGED <<store, ag, resp, calls, codec, ext, created, services>>

\* httpx timeout (120 s) while the response is awaited: the exception is
\* re-raised by send_message; the agent is not told and goes on
timeout(t) ==
    /\ co[t].pc = "await"
    /\ resp[t] = None
    /\ co' = [co EXCEPT ![t] = Raise(@, "")]
    /\ inflight' = inflight \ {AwaitedCall(t)}
    /\ replies' = [replies EXCEPT ![t] = Append(@, [kind |-> "Timeout", status |-> "",
                                               result |-> EmptyDict])]
    /\ UNCHANGED <<store, reqs, ag, resp, calls, codec, ext, created, services>>

\* call_agent_action from the response on, and run_workflow up to its next
\* store access
call_agent_action(t) ==
    /\ co[t].pc = "await"
    /\ resp[t] # None
    /\ LET action == co[t].step
           content == resp[t][1].content
           out == call_agent_action_result(run_workflow_steps[action].agent_uri,
                                           action, content)
       IN /\ co' = [co EXCEPT ![t] = IF out.ok THEN AfterCall(@, action)
                                                ELSE Raise(@, out.exc)]
          /\ replies' = [replies EXCEPT ![t] =
                            Append(@, [kind |-> content.type,
                                       status |-> Get(content, "status", ""),
                                       result |-> Get(content, "result", EmptyDict)])]
    /\ resp' = [resp EXCEPT ![t] = None]
    /\ inflight' = inflight \ {AwaitedCall(t)}
    /\ UNCHANGED <<store, reqs, ag, calls, codec, ext, created, services>>

\* decision = await self.should_continue(task_id); break or iteration += 1
decide(t) ==
    /\ co[t].pc = "decide"
    /\ LET state == get_state(t)
       IN co' = [co EXCEPT ![t] =
                    IF state = None
                    THEN Raise(@, "'NoneType' object has no attribute 'get'")
                    ELSE IF should_continue(state[1]) = "finalize"
                    THEN [@ EXCEPT !.pc = "update_get", !.step = "generate_report"]
                    ELSE [@ EXCEPT !.pc = "update_get",
                                   !.iteration = @ + 1,
                                   !.step = LoopTest(co[t].iteration + 1,
                                                     co[t].max_iterations)]]
    /\ UNCHANGED <<store, reqs, ag, resp, inflight, calls, replies, codec, ext, created, services>>

(***************************************************************************)
(* agents/*_a2a.py: the five agents.                                       *)
(***************************************************************************)
\* self.name and the action table of handle_action, per agent
Agents ==
    [a \in AgentIds |->
        CASE a = AGENT_URIS.topic_refiner ->
                [name |-> "Dr. Topic Refiner", actions |-> {"refine_topic"}]
          [] a = AGENT_URIS.question_architect ->
                [name |-> "Prof. Question Architect",
                 actions |-> {"generate_questions"}]
          [] a = AGENT_URIS.search_strategist ->
                [name |-> "Agent Search Strategist",
                 actions |-> {"execute_search", "optimize_query"}]
          [] a = AGENT_URIS.data_analyst ->
                [name |-> "Dr. Data Analyst", actions |-> {"analyze_results"}]
          [] a = AGENT_URIS.report_writer ->
                [name |-> "Dr. Report Writer", actions |-> {"generate_report"}]]

\* `[...][:3]` of _generate_questions and `[...][:5]` of _analyze_results
MAX_QUESTIONS == 3

MAX_FINDINGS == 5

\* a handler that raised, and one that returned
Raised(exc) == [ok |-> FALSE, exc |-> exc]

\* a handler that returns its result without having saved anything
Returned_unsaved(updates, log_action, result) ==
    [ok |-> TRUE, updates |-> None, log_action |-> log_action,
     result |-> result]

Returned(updates, log_action, result) ==
    [ok |-> TRUE, updates |-> updates, log_action |-> log_action,
     result |-> result]

\* DoneStatus with the report writer marking the task completed itself
DoneStatus_writer_completes ==
    [refine_topic |-> "topic_refined", generate_questions |-> "questions_generated",
     execute_search |-> "search_completed", analyze_results |-> "analysis_completed",
     generate_report |-> "completed"]

\* the status an agent writes when its step is done
DoneStatus ==
    [refine_topic |-> "topic_refined", generate_questions |-> "questions_generated",
     execute_search |-> "search_completed", analyze_results |-> "analysis_completed",
     generate_report |-> "report_completed"]

\* _refine_topic after get_state; P.refined are the LLM's answers
refine_topic(a, state, P) ==
    {Raised(e) : e \in P.llm_errors} \cup
    {Returned([topic |-> r, status |-> DoneStatus.refine_topic,
               current_agent |-> Agents[a].name],
              "refined_topic",
              [refined_topic |-> r, original_topic |-> Get(state, "topic", "")])
        : r \in P.refined}

\* _generate_questions after get_state; P.questions are the cleaned lines
generate_questions(a, state, P) ==
    {Raised(e) : e \in P.llm_errors} \cup
    {LET questions == Take(lines, MAX_QUESTIONS)
         all_questions == Get(state, "research_questions", <<>>) \o questions
     IN Returned([research_questions |-> all_questions,
                  status |-> DoneStatus.generate_questions,
                  current_agent |-> Agents[a].name],
                 "generated_questions",
                 [count |-> Len(questions),
                  total_questions |-> Len(all_questions)])
        : lines \in P.questions}

\* a loop body that takes a question whose search raised as processed
SearchOne_marks_failed(acc, question, outcome) ==
    [search_results |-> acc.search_results \o
                           Repeat("r:" \o question, IF outcome = None THEN 0 ELSE outcome[1]),
     search_queries |-> Append(acc.search_queries, question),
     new_results_count |-> acc.new_results_count +
                              (IF outcome = None THEN 0 ELSE outcome[1]),
     queries_processed |-> acc.queries_processed + 1,
     tried |-> Append(acc.tried, [question |-> question, outcome |-> outcome])]

\* one pass of the body of the for loop of _execute_search: outcome None is
\* an exception of the search (swallowed), Some(n) is n results; tried is
\* the history of the calls of ddgs.text, which the handler does not keep
SearchOne(acc, question, outcome) ==
    IF outcome = None
    THEN [acc EXCEPT !.tried = Append(@, [question |-> question, outcome |-> outcome])]
    ELSE [search_results |-> acc.search_results \o Repeat("r:" \o question, outcome[1]),
          search_queries |-> Append(acc.search_queries, question),
          new_results_count |-> acc.new_results_count + outcome[1],
          queries_processed |-> acc.queries_processed + 1,
          tried |-> Append(acc.tried, [question |-> question, outcome |-> outcome])]

\* the for loop of _execute_search from question i on: every way it can end
RECURSIVE SearchLoop(_, _, _, _)
SearchLoop(questions, i, acc, outcomes) ==
    IF i > Len(questions) THEN {acc}
    ELSE IF InSeq(questions[i], acc.search_queries)
    THEN SearchLoop(questions, i + 1, acc, outcomes)
    ELSE UNION {SearchLoop(questions, i + 1, SearchOne(acc, questions[i], o), outcomes)
                   : o \in outcomes}

\* the outcomes one search can have: an exception, or up to max_results
\* results
SearchOutcomes(parameters, P) ==
    {o \in P.searches :
        o = None \/ o[1] <= Get(parameters, "max_results", MAX_RESULTS)}

\* the locals of _execute_search before its for loop
SearchStart(state) ==
    [search_results |-> Get(state, "search_results", <<>>),
     search_queries |-> Get(state, "search_queries", <<>>),
     new_results_count |-> 0, queries_processed |-> 0, tried |-> <<>>]

\* _execute_search after get_state; P.searches are the outcomes of a search
execute_search(a, state, parameters, P) ==
    LET outcomes == SearchOutcomes(parameters, P)
        start == SearchStart(state)
    IN {Returned([search_results |-> acc.search_results,
                  search_queries |-> acc.search_queries,
                  iteration |-> Get(state, "iteration", 0) + 1,
                  status |-> DoneStatus.execute_search,
                  current_agent |-> Agents[a].name],
                 "executed_searches",
                 [results_count |-> acc.new_results_count,
                  queries_processed |-> acc.queries_processed,
                  total_results |-> Len(acc.search_results)])
          : acc \in SearchLoop(Get(state, "research_questions", <<>>), 1,
                               start, outcomes)}

\* min(len(findings) * 0.15 + len(search_results) * 0.02, 1.0), in hundredths
QualityScore(findings, search_results) ==
    Min(Len(findings) * 15 + Len(search_results) * 2, 100)

AnalysisDone(a, state, findings, quality_score) ==
    LET all_findings == Get(state, "key_findings", <<>>) \o findings
    IN Returned([key_findings |-> all_findings,
                 quality_score |-> quality_score,
                 status |-> DoneStatus.analyze_results,
                 current_agent |-> Agents[a].name],
                "analyzed_data",
                [quality_score |-> quality_score,
                 findings_count |-> Len(findings),
                 total_findings |-> Len(all_findings)])

\* _analyze_results after get_state; P.findings are the cleaned lines
analyze_results(a, state, P) ==
    LET search_results == Get(state, "search_results", <<>>)
    IN IF search_results = <<>>
       THEN {AnalysisDone(a, state, <<"No data available for analysis">>, 0)}
       ELSE {Raised(e) : e \in P.llm_errors} \cup
            {LET findings == Take(lines, MAX_FINDINGS)
             IN AnalysisDone(a, state, findings,
                             QualityScore(findings, search_results))
                : lines \in P.findings}

\* _generate_report that stores the LLM's report as it is
generate_report_no_footer(a, state, P) ==
    {Raised(e) : e \in P.llm_errors} \cup
    {Returned([final_report |-> r, status |-> DoneStatus.generate_report,
               current_agent |-> Agents[a].name],
              "generated_report", [report |-> r])
        : r \in P.reports}

\* _generate_report after get_state; P.reports are the LLM's reports, to
\* which the metadata footer is appended
generate_report(a, state, P) ==
    {Raised(e) : e \in P.llm_errors} \cup
    {LET report == r \o "## Research Metadata"
     IN Returned([final_report |-> report,
                  status |-> DoneStatus.generate_report,
                  current_agent |-> Agents[a].name],
                 "generated_report",
                 [report |-> report])
        : r \in P.reports}

\* handle_action without the action table: whatever the action, the agent
\* runs the handler of its first capability
handle_action_no_table(a, action, parameters, stored, P) ==
    IF Get(parameters, "task_id", "") = ""
    THEN {Raised("task_id is required")}
    ELSE IF stored = None \/ stored = Some(EmptyDict)
    THEN {Raised("Task not found: " \o parameters.task_id)}
    ELSE CASE a = AGENT_URIS.topic_refiner -> refine_topic(a, stored[1], P)
           [] a = AGENT_URIS.question_architect -> generate_questions(a, stored[1], P)
           [] a = AGENT_URIS.search_strategist ->
                execute_search(a, stored[1], parameters, P)
           [] a = AGENT_URIS.data_analyst -> analyze_results(a, stored[1], P)
           [] a = AGENT_URIS.report_writer -> generate_report(a, stored[1], P)

\* handle_action whose handlers go on with an empty record (`state or {}`)
\* when the task has none
handle_action_no_record_check(a, action, parameters, stored, P) ==
    IF action \notin Agents[a].actions
    THEN {Raised("Unknown action: " \o action)}
    ELSE IF action = "optimize_query"
    THEN {Raised("query is required")}
    ELSE IF Get(parameters, "task_id", "") = ""
    THEN {Raised("task_id is required")}
    ELSE CASE action = "refine_topic" -> refine_topic(a, OrEmpty(stored), P)
           [] action = "generate_questions" ->
                generate_questions(a, OrEmpty(stored), P)
           [] action = "execute_search" ->
                execute_search(a, OrEmpty(stored), parameters, P)
           [] action = "analyze_results" -> analyze_results(a, OrEmpty(stored), P)
           [] action = "generate_report" -> generate_report(a, OrEmpty(stored), P)

\* handle_action and the handler it selects, up to the handler's first store
\* write: every way it can go on, given the record get_state returned
\* (P.store_errors: the exceptions of a get_state that cannot reach Redis)
handle_action(a, action, parameters, stored, P) ==
    IF action \notin Agents[a].actions
    THEN {Raised("Unknown action: " \o action)}
    ELSE IF action = "optimize_query"
    THEN IF "query" \notin DOMAIN parameters
         THEN {Raised("query is required")}
         ELSE {Raised(e) : e \in P.llm_errors} \cup
              {[ok |-> TRUE, updates |-> None, log_action |-> "",
                result |-> [original_query |-> parameters.query]]}
    ELSE IF Get(parameters, "task_id", "") = ""
    THEN {Raised("task_id is required")}
    ELSE {Raised(e) : e \in P.store_errors} \cup
         IF stored = None \/ stored = Some(EmptyDict)
         THEN {Raised("Task not found: " \o parameters.task_id)}
         ELSE
         CASE action = "refine_topic" -> refine_topic(a, stored[1], P)
           [] action = "generate_questions" -> generate_questions(a, stored[1], P)
           [] action = "execute_search" ->
                execute_search(a, stored[1], parameters, P)
           [] action = "analyze_results" -> analyze_results(a, stored[1], P)
           [] action = "generate_report" -> generate_report(a, stored[1], P)

\* the entry add_log appends
LogEntry(a, log_action) ==
    [agent |-> Agents[a].name, agent_id |-> a, action |-> log_action]

\* _handle_action_request whose except clause answers with the exception's
\* class in place of its message
ActionResponseOf_class_name(action, plan) ==
    IF plan.ok
    THEN A2AActionResponse(action, plan.result, "completed", None)
    ELSE A2AActionResponse(action, EmptyDict, "failed", Some("Exception"))

\* the content _handle_action_request answers with
ActionResponseOf(action, plan) ==
    IF plan.ok
    THEN A2AActionResponse(action, plan.result, "completed", None)
    ELSE A2AActionResponse(action, EmptyDict, "failed", Some(plan.exc))

(***************************************************************************)
(* Agent actions.  An agent's handler is synchronous code in an async      *)
(* endpoint: the process reads the next request when the handler is done.  *)
(***************************************************************************)
\* POST /message with an ActionRequest: process_message,
\* _handle_action_request, handle_action, the handler's get_state and its
\* LLM or search calls
receive_message(a, P) ==
    /\ ag[a].pc = "idle"
    /\ \E r \in reqs :
          /\ r.to = a
          /\ r.content.type = "ActionRequest"
          /\ reqs' = reqs \ {r}
          /\ \E plan \in handle_action(a, r.content.action, r.content.parameters,
                                       IF "task_id" \in DOMAIN r.content.parameters
                                       THEN get_state(r.content.parameters.task_id)
                                       ELSE None, P) :
                ag' = [ag EXCEPT ![a] =
                         [pc |-> IF plan.ok /\ plan.updates # None
                                 THEN "update_get" ELSE "respond",
                          req |-> r, plan |-> plan, rmw |-> None]]
    /\ UNCHANGED <<store, co, resp, inflight, calls, replies, codec, ext, created, services>>

\* handlers that keep every task under one key of the store
HandlerTask_one_key(a) == "t1"

\* the task the handler of agent a works on
HandlerTask(a) == ag[a].req.content.parameters.task_id

\* update_state, first half
agent_update_state_get(a) ==
    /\ ag[a].pc = "update_get"
    /\ ag' = [ag EXCEPT ![a] = [@ EXCEPT !.pc = "update_set",
                                         !.rmw = Some(OrEmpty(get_state(HandlerTask(a))))]]
    /\ UNCHANGED <<store, co, reqs, resp, inflight, calls, replies, codec, ext, created, services>>

\* update_state, second half
agent_update_state_set(a) ==
    /\ ag[a].pc = "update_set"
    /\ store' = [store EXCEPT ![HandlerTask(a)] =
                    Some(DictUpdate(ag[a].rmw[1], ag[a].plan.updates))]
    /\ ag' = [ag EXCEPT ![a] = [@ EXCEPT !.pc = "log_get", !.rmw = None]]
    /\ UNCHANGED <<co, reqs, resp, inflight, calls, replies, codec, ext, created, services>>

\* add_log, first half
add_log_get(a) ==
    /\ ag[a].pc = "log_get"
    /\ ag' = [ag EXCEPT ![a] = [@ EXCEPT !.pc = "log_set",
                                         !.rmw = Some(OrEmpty(get_state(HandlerTask(a))))]]
    /\ UNCHANGED <<store, co, reqs, resp, inflight, calls, replies, codec, ext, created, services>>

\* add_log, second half
add_log_set(a) ==
    /\ ag[a].pc = "log_set"
    /\ LET state == ag[a].rmw[1]
           logs == Append(Get(state, "agent_logs", <<>>),
                          LogEntry(a, ag[a].plan.log_action))
       IN store' = [store EXCEPT ![HandlerTask(a)] =
                       Some(DictUpdate(state, [agent_logs |-> logs]))]
    /\ ag' = [ag EXCEPT ![a] = [@ EXCEPT !.pc = "respond", !.rmw = None]]
    /\ UNCHANGED <<co, reqs, resp, inflight, calls, replies, codec, ext, created, services>>

\* a request that came on the connection of a client other than the
\* coordinator (the coordinator numbers its calls from 1)
FromClient(r) == r.callno = 0

\* the HTTP response the client gets: status code and JSON body
Answered(http, body) ==
    [pc |-> "answered", n |-> ext.n, to |-> ext.to, payload |-> ext.payload,
     http |-> http, body |-> body]

\* an answer that takes the id of the request as its own
create_action_response_same_id(a, r, plan) ==
    A2AMessage(r.id, r.from, a, ActionResponseOf(r.content.action, plan),
               Some(r.id))

\* create_action_response of _handle_action_request: to the sender, in
\* reply to the request
create_action_response(a, r, plan) ==
    A2AMessage(uuid4(a, r.conn), r.from, a,
               ActionResponseOf(r.content.action, plan), Some(r.id))

\* the response envelope goes back on the connection of the request; a
\* caller that gave up (timeout) no longer reads it
send_response(a) ==
    /\ ag[a].pc = "respond"
    /\ LET r == ag[a].req
           call == [task |-> r.task, callno |-> r.callno]
           response == create_action_response(a, r, ag[a].plan)
       IN /\ resp' = IF call \in inflight
                     THEN [resp EXCEPT ![r.task] = Some(response)]
                     ELSE resp
          /\ ext' = IF FromClient(r)
                    THEN Answered(200, serialize_response(response))
                    ELSE ext
          /\ created' = created \cup {response.id}
    /\ ag' = [ag EXCEPT ![a] = IdleAgent]
    /\ UNCHANGED <<store, co, reqs, inflight, calls, replies, codec, services>>

(***************************************************************************)
(* A reply of the service at an agent's address that is not the answer of  *)
(* one of the five handlers: send_message parses whatever envelope the     *)
(* POST returns, and call_agent_action gets its content.                   *)
(***************************************************************************)
OtherReplies(uri, action) ==
    {A2AStatusUpdate(s) : s \in {"completed", "processing"}} \cup
    {A2AActionResponse(action, EmptyDict, s, None) : s \in {"pending", "processing"}} \cup
    {A2AError("PROCESSING_ERROR", "internal error"),
     A2ACapabilityResponse(<<>>, [id |-> uri, name |-> ""]),
     A2ACapabilityRequest,
     A2AActionRequest(action, EmptyDict)}

other_reply(t) ==
    /\ co[t].pc = "await"
    /\ resp[t] = None
    /\ \E r \in reqs :
          /\ r.task = t /\ r.callno = Len(calls[t])
          /\ reqs' = reqs \ {r}
          /\ \E content \in OtherReplies(r.to, r.content.action) :
                resp' = [resp EXCEPT ![t] =
                           Some(A2AMessage(uuid4(r.to, r.conn), r.from, r.to,
                                           content, Some(r.id)))]
          /\ created' = created \cup {uuid4(r.to, r.conn)}
    /\ UNCHANGED <<store, co, ag, inflight, calls, replies, codec, ext, services>>

(***************************************************************************)
(* A client other than the coordinator posts a payload to the /message     *)
(* endpoint of an agent and reads the HTTP response.                       *)
(***************************************************************************)
\* get_capabilities: the names of the capabilities an agent declares
get_capabilities(a) ==
    IF a = AGENT_URIS.search_strategist
    THEN <<"execute_search", "optimize_query">>
    ELSE <<CHOOSE action \in Agents[a].actions : TRUE>>

\* process_message whose capability response lists nothing
process_message_no_capabilities(a, message, message_id) ==
    IF message.content.type = "CapabilityRequest"
    THEN A2AMessage(message_id, message.from_agent, a,
                    A2ACapabilityResponse(<<>>, [id |-> a, name |-> Agents[a].name]),
                    Some(message.id))
    ELSE A2AMessage(message_id, message.from_agent, a,
                    A2AError("UNSUPPORTED_MESSAGE_TYPE",
                             "Unsupported message content type: " \o
                                message.content.type),
                    Some(message.id))

\* process_message that reports every content it does not serve as a
\* processing error
process_message_processing_error(a, message, message_id) ==
    IF message.content.type = "CapabilityRequest"
    THEN A2AMessage(message_id, message.from_agent, a,
                    A2ACapabilityResponse(get_capabilities(a),
                                          [id |-> a, name |-> Agents[a].name]),
                    Some(message.id))
    ELSE A2AMessage(message_id, message.from_agent, a,
                    A2AError("PROCESSING_ERROR",
                             "Unsupported message content type: " \o
                                message.content.type),
                    Some(message.id))

\* process_message on a decoded envelope whose content is no ActionRequest:
\* _handle_capability_request, or create_error_message of the else branch
process_message(a, message, message_id) ==
    IF message.content.type = "CapabilityRequest"
    THEN A2AMessage(message_id, message.from_agent, a,
                    A2ACapabilityResponse(get_capabilities(a),
                                          [id |-> a, name |-> Agents[a].name]),
                    Some(message.id))
    ELSE A2AMessage(message_id, message.from_agent, a,
                    A2AError("UNSUPPORTED_MESSAGE_TYPE",
                             "Unsupported message content type: " \o
                                message.content.type),
                    Some(message.id))

\* the client posts payload d to the endpoint of agent a
client_post(a, d) ==
    /\ ext.pc = "idle"
    /\ ext.n < MaxPosts
    /\ LET message_id == uuid4("agent://client", Exchange("client", ext.n + 1))
       IN /\ ext' = [pc |-> "posted", n |-> ext.n + 1, to |-> a,
                     payload |-> [d EXCEPT !["id"] = message_id]]
          /\ created' = created \cup {message_id}
    /\ UNCHANGED <<store, co, reqs, ag, resp, inflight, calls, replies, codec, services>>

\* POST /message with the client's payload: the framework validates the
\* body against A2AMessage (422 when it does not validate), then
\* process_message dispatches on the content
receive_client_message(a, P) ==
    /\ ag[a].pc = "idle"
    /\ ext.pc = "posted"
    /\ ext.to = a
    /\ LET body == A2AMessage_validate(ext.payload)
           x == Exchange("client", ext.n)
       IN IF ~body.ok
          THEN /\ ext' = Answered(422, [detail |-> body.error])
               /\ UNCHANGED <<ag, created>>
          ELSE IF body.message.content.type = "ActionRequest"
          THEN LET content == body.message.content
                   task_id == IF "task_id" \in DOMAIN content.parameters
                              THEN content.parameters.task_id ELSE ""
               IN /\ \E plan \in handle_action(a, content.action, content.parameters,
                                                IF task_id \in TaskIds
                                                THEN get_state(task_id) ELSE None,
                                                P) :
                        ag' = [ag EXCEPT ![a] =
                                 [pc |-> IF plan.ok /\ plan.updates # None
                                         THEN "update_get" ELSE "respond",
                                  req |-> [task |-> task_id, to |-> a,
                                           from |-> body.message.from_agent,
                                           callno |-> 0, conn |-> x,
                                           id |-> body.message.id,
                                           content |-> content],
                                  plan |-> plan, rmw |-> None]]
                  /\ ext' = [ext EXCEPT !.pc = "handling"]
                  /\ created' = created
          ELSE /\ ext' = Answered(200, serialize_response(
                              process_message(a, body.message, uuid4(a, x))))
               /\ created' = created \cup {uuid4(a, x)}
               /\ ag' = ag
    /\ UNCHANGED <<store, co, reqs, resp, inflight, calls, replies, codec, services>>

\* the client has read the response
client_read ==
    /\ ext.pc = "answered"
    /\ ext' = [pc |-> "idle", n |-> ext.n]
    /\ UNCHANGED <<store, co, reqs, ag, resp, inflight, calls, replies, codec, created, services>>

(***************************************************************************)
(* Inputs and specifications.                                              *)
(***************************************************************************)
\* what the LLM, the web search and Redis may answer, and what callers pass
Inputs ==
    [topics |-> {"X"},
     max_iterations |-> -1..MaxIter,
     refined |-> {"X refined"},
     questions |-> {<<"q1">>, <<"q1", "q2">>},
     searches |-> {None, Some(2)},
     findings |-> {<<>>, Repeat("f", 5)},
     reports |-> {"", "report"},
     llm_errors |-> {"", "llm unavailable"},
     store_errors |-> {"redis unavailable"}]

\* fewer answers, for the runs with several tasks or with other replies
SmallInputs ==
    [topics |-> {"X"},
     max_iterations |-> {1},
     refined |-> {"X refined"},
     questions |-> {<<"q1">>},
     searches |-> {Some(2)},
     findings |-> {Repeat("f", 5)},
     reports |-> {"report"},
     llm_errors |-> {"llm unavailable"},
     store_errors |-> {}]

CoordinatorStep(t) ==
    \/ run_workflow_begin(t)
    \/ update_state_get(t)
    \/ update_state_set(t)
    \/ send_message(t)
    \/ connect_error(t)
    \/ timeout(t)
    \/ call_agent_action(t)
    \/ decide(t)

AgentStep(a, P) ==
    \/ receive_message(a, P)
    \/ agent_update_state_get(a)
    \/ agent_update_state_set(a)
    \/ add_log_get(a)
    \/ add_log_set(a)
    \/ send_response(a)

\* one task, all inputs
Next ==
    \/ \E topic \in Inputs.topics, mi \in Inputs.max_iterations :
          start_research("t1", topic, mi)
    \/ CoordinatorStep("t1")
    \/ \E a \in AgentIds : AgentStep(a, Inputs)

Spec == Init /\ [][Next]_vars

\* every max_iterations, every outcome of a search and of the analysis, one
\* list of questions and one failure of each kind
LiveInputs ==
    [Inputs EXCEPT !.llm_errors = {"llm unavailable"}, !.reports = {"report"},
                   !.questions = {<<"q1", "q2">>}]

\* one task, under fair scheduling
NextLive ==
    \/ \E topic \in LiveInputs.topics, mi \in LiveInputs.max_iterations :
          start_research("t1", topic, mi)
    \/ CoordinatorStep("t1")
    \/ \E a \in AgentIds : AgentStep(a, LiveInputs)

\* the event loop runs every coroutine that can go on, an awaited POST ends
\* (response, connection error or timeout), and every agent process runs
Fairness ==
    /\ WF_vars(CoordinatorStep("t1"))
    /\ \A a \in AgentIds : WF_vars(AgentStep(a, LiveInputs))

SpecLive == Init /\ [][NextLive]_vars /\ Fairness

\* several tasks whose workflows run concurrently in the coordinator
NextConcurrent ==
    \/ \E t \in TaskIds, topic \in SmallInputs.topics,
          mi \in SmallInputs.max_iterations : start_research(t, topic, mi)
    \/ \E t \in TaskIds : CoordinatorStep(t)
    \/ \E a \in AgentIds : AgentStep(a, SmallInputs)

SpecConcurrent == Init /\ [][NextConcurrent]_vars

\* one task, and every content variant as the reply to a call
NextReplies ==
    \/ \E topic \in SmallInputs.topics, mi \in SmallInputs.max_iterations :
          start_research("t1", topic, mi)
    \/ CoordinatorStep("t1")
    \/ other_reply("t1")
    \/ \E a \in AgentIds : AgentStep(a, SmallInputs)

SpecReplies == Init /\ [][NextReplies]_vars

\* AGENT_SERVICES without the entry of uri
Without(uri) == [u \in DOMAIN AGENT_SERVICES \ {uri} |-> AGENT_SERVICES[u]]

\* the directory as shipped, and directories that miss one agent
Directories ==
    {AGENT_SERVICES, Without(AGENT_URIS.topic_refiner),
     Without(AGENT_URIS.search_strategist), Without(AGENT_URIS.report_writer)}

InitDirectory == Fresh /\ services \in Directories

\* one task, under each directory
NextDirectory ==
    \/ \E topic \in SmallInputs.topics, mi \in SmallInputs.max_iterations :
          start_research("t1", topic, mi)
    \/ CoordinatorStep("t1")
    \/ \E a \in AgentIds : AgentStep(a, SmallInputs)

SpecDirectory == InitDirectory /\ [][NextDirectory]_vars

(***************************************************************************)
(* Envelopes through the encoders and the decoder.                         *)
(***************************************************************************)
\* the envelopes call_agent_action builds with create_action_request
RequestEnvelopes ==
    {A2AMessage(id, run_workflow_steps[action].agent_uri, AGENT_URIS.coordinator,
                A2AActionRequest(action, StepParameters("t1", action)), None)
        : id \in {"m1", "m2"}, action \in Actions}

\* the contents process_message answers with
ResponseContents ==
    {A2AActionResponse("refine_topic", [refined_topic |-> "X refined"],
                       "completed", None),
     A2AActionResponse("refine_topic", EmptyDict, "failed", Some("llm unavailable")),
     A2AActionResponse("ping", EmptyDict, "failed", Some("")),
     A2AError("UNSUPPORTED_MESSAGE_TYPE", "Unsupported message content type"),
     A2AError("PROCESSING_ERROR", ""),
     A2ACapabilityResponse(<<"refine_topic">>,
                           [id |-> AGENT_URIS.topic_refiner,
                            name |-> "Dr. Topic Refiner"])}

\* the envelopes an agent answers with: reply_to is the id of the request
ResponseEnvelopes ==
    {A2AMessage(id, AGENT_URIS.coordinator, AGENT_URIS.topic_refiner, content,
                Some(reply_to))
        : id \in {"m2"}, reply_to \in {"m1", ""}, content \in ResponseContents}

\* envelopes of the variants no process of the pipeline sends
OtherEnvelopes ==
    {A2AMessage("m1", to, "agent://client", content, reply_to)
        : to \in {AGENT_URIS.topic_refiner, AGENT_URIS.search_strategist},
          reply_to \in {None, Some("m0")},
          content \in {A2ACapabilityRequest,
                        A2AStatusUpdate("processing"),
                        [A2AStatusUpdate("completed") EXCEPT
                            !.progress = Some(100), !.message = Some("done")],
                        [A2AError("E", "m") EXCEPT
                            !.details = Some([k |-> "v"])],
                        A2AActionRequest("optimize_query", [query |-> "q"])}}

\* payloads of a client whose content has no discriminator, or one that
\* names none of the six variants
UntaggedContents ==
    {("action" :> "refine_topic") @@ ("parameters" :> [task_id |-> "t1"]),
     ("@type" :> "Ping") @@ ("action" :> "refine_topic"),
     ("type" :> "Ping") @@ ("action" :> "refine_topic"),
     ("@type" :> "actionrequest") @@ ("action" :> "refine_topic"),
     ("@type" :> "") @@ ("action" :> "refine_topic"),
     ("@type" :> "Message") @@ ("action" :> "refine_topic"),
     ("@type" :> "") @@ ("type" :> "ActionRequest") @@ ("action" :> "refine_topic")}

\* payloads written by hand, as scripts/test_a2a_local.py does
ClientPayloads ==
    {("@type" :> "Message") @@ ("id" :> "m1") @@ ("to" :> AGENT_URIS.topic_refiner) @@
     ("from" :> "agent://client") @@ ("content" :> c) @@ ("timestamp" :> "ts")
        : c \in UntaggedContents \cup
                 {("@type" :> "ActionRequest") @@ ("action" :> "refine_topic") @@
                  ("parameters" :> [task_id |-> "t2"]) @@ ("context" :> EmptyDict),
                  ("type" :> "CapabilityRequest") @@ ("note" :> "by name"),
                  ("@type" :> "StatusUpdate") @@ ("status" :> "done")}}

\* an envelope is built
codec_new(e) ==
    /\ codec.pc = "none"
    /\ codec' = [pc |-> "message", message |-> e]
    /\ UNCHANGED <<store, co, reqs, ag, resp, inflight, calls, replies, ext, created, services>>

\* send_message builds the payload of the POST
codec_message_dict ==
    /\ codec.pc = "message"
    /\ codec.message \in RequestEnvelopes
    /\ codec' = [pc |-> "payload", by |-> "message_dict",
                 message |-> codec.message,
                 payload |-> message_dict(codec.message)]
    /\ UNCHANGED <<store, co, reqs, ag, resp, inflight, calls, replies, ext, created, services>>

\* the endpoint of an agent serializes the envelope it answers with
codec_serialize_response ==
    /\ codec.pc = "message"
    /\ codec.message \in ResponseEnvelopes
    /\ codec' = [pc |-> "payload", by |-> "serialize_response",
                 message |-> codec.message,
                 payload |-> serialize_response(codec.message)]
    /\ UNCHANGED <<store, co, reqs, ag, resp, inflight, calls, replies, ext, created, services>>

\* A2AMessage.model_dump, by name or by alias
codec_model_dump(by_alias) ==
    /\ codec.pc = "message"
    /\ codec' = [pc |-> "payload", by |-> "model_dump",
                 message |-> codec.message,
                 payload |-> model_dump(codec.message, by_alias, FALSE)]
    /\ UNCHANGED <<store, co, reqs, ag, resp, inflight, calls, replies, ext, created, services>>

\* a payload written by a client arrives
codec_post(d) ==
    /\ codec.pc = "none"
    /\ codec' = [pc |-> "payload", by |-> "client", payload |-> d]
    /\ UNCHANGED <<store, co, reqs, ag, resp, inflight, calls, replies, ext, created, services>>

\* the receiver decodes the payload
codec_validate ==
    /\ codec.pc = "payload"
    /\ codec' = [codec EXCEPT !.pc = "decoded"] @@
                 [out |-> A2AMessage_validate(codec.payload)]
    /\ UNCHANGED <<store, co, reqs, ag, resp, inflight, calls, replies, ext, created, services>>

NextCodec ==
    \/ \E e \in RequestEnvelopes \cup ResponseEnvelopes \cup OtherEnvelopes :
          codec_new(e)
    \/ codec_message_dict
    \/ codec_serialize_response
    \/ \E by_alias \in BOOLEAN : codec_model_dump(by_alias)
    \/ \E d \in ClientPayloads : codec_post(d)
    \/ codec_validate

SpecCodec == Init /\ [][NextCodec]_vars

\* what a client posts besides the hand-written payloads, and where: an
\* action none of the agents has, actions of other agents, requests whose
\* handler raises, and the contents that are answers
ClientEnvelopes ==
    {A2AMessage("m1", a, "agent://client", content, None)
        : a \in AgentIds,
          content \in {A2AActionRequest("ping", [task_id |-> "t1"]),
                        A2ACapabilityRequest}} \cup
    {A2AMessage("m1", a, "agent://client", content, None)
        : a \in {AGENT_URIS.topic_refiner, AGENT_URIS.search_strategist},
          content \in {A2AActionRequest("generate_report", [task_id |-> "t1"]),
                        A2AActionRequest("optimize_query", EmptyDict),
                        A2AActionRequest("execute_search", EmptyDict),
                        A2AActionRequest("refine_topic", [task_id |-> "t2"]),
                        A2AActionResponse("refine_topic", EmptyDict, "completed", None),
                        A2AError("E", "m"),
                        A2AStatusUpdate("processing")}}

\* the payloads of a client, each for the agent its envelope names
ClientPosts ==
    ClientPayloads \cup {message_dict(e) : e \in ClientEnvelopes}

\* one task of the coordinator, and a client posting to the agents
NextClient ==
    \/ \E topic \in SmallInputs.topics, mi \in SmallInputs.max_iterations :
          start_research("t1", topic, mi)
    \/ CoordinatorStep("t1")
    \/ \E a \in AgentIds : AgentStep(a, SmallInputs)
    \/ \E a \in AgentIds : receive_client_message(a, SmallInputs)
    \/ \E d \in ClientPosts : client_post(d["to"], d)
    \/ client_read

SpecClient == Init /\ [][NextClient]_vars

\* run_workflow for a task id under which nothing was stored, next to the
\* workflow of a task that was started
NextNoRecord ==
    \/ run_workflow("t1")
    \/ \E topic \in SmallInputs.topics, mi \in SmallInputs.max_iterations :
          start_research("t2", topic, mi)
    \/ \E t \in TaskIds : CoordinatorStep(t)
    \/ \E a \in AgentIds : AgentStep(a, SmallInputs)

SpecNoRecord == Init /\ [][NextNoRecord]_vars

\* requests of a client for each task-bound action, sent to the agent that
\* serves it: for a task that has no record, with no task_id, with an empty
\* task_id
OrphanPosts ==
    {message_dict(A2AMessage("m1", run_workflow_steps[action].agent_uri,
                             "agent://client",
                             A2AActionRequest(action, parameters), None))
        : action \in Actions,
          parameters \in {[task_id |-> "t2"], EmptyDict, [task_id |-> ""]}}

\* one task of the coordinator, and a client asking the agents to work on a
\* task that was never started
NextOrphan ==
    \/ \E topic \in SmallInputs.topics, mi \in SmallInputs.max_iterations :
          start_research("t1", topic, mi)
    \/ CoordinatorStep("t1")
    \/ \E a \in AgentIds : AgentStep(a, SmallInputs)
    \/ \E a \in AgentIds : receive_client_message(a, SmallInputs)
    \/ \E d \in OrphanPosts : client_post(d["to"], d)
    \/ client_read

SpecOrphan == Init /\ [][NextOrphan]_vars

(***************************************************************************)
(* Properties.                                                             *)
(***************************************************************************)
\* the persisted status of a task ("absent": no record under its key)
Status(t) == IF store[t] = None THEN "absent" ELSE Get(store[t][1], "status", "")

\* the persisted error is present and not the empty string
ErrorPopulated(t) ==
    /\ store[t] # None
    /\ Get(store[t][1], "error", None) # None
    /\ store[t][1].error # Some("")

IsFailedResponse(r) == r.kind = "ActionResponse" /\ r.status = "failed"

IsCompletedResponse(r) == r.kind = "ActionResponse" /\ r.status = "completed"

\* the agents whose handler works on task t
Handlers(t) == {a \in AgentIds : ag[a].pc # "idle" /\ ag[a].req.task = t}

\* run_workflow returned and nothing is left that could write for the task
Quiescent(t) ==
    /\ co[t].pc = "done"
    /\ Handlers(t) = {}
    /\ \A r \in reqs : r.task # t

\* C1: when the response to a step is an ActionResponse with status=failed,
\* that call is the last one issued for the task, and once run_workflow has
\* returned the persisted status is failed and the persisted error is a
\* non-empty string.
C1_FailureShortCircuit ==
    \A t \in TaskIds : \A i \in 1..Len(replies[t]) :
        IsFailedResponse(replies[t][i]) =>
            /\ Len(calls[t]) = i
            /\ co[t].pc = "done" => Status(t) = "failed" /\ ErrorPopulated(t)

\* a failed response to execute_search, the third call, and the run over
C1_Witness ==
    \E t \in TaskIds :
        /\ Len(replies[t]) = 3
        /\ IsFailedResponse(replies[t][3])
        /\ calls[t][3].action = "execute_search"
        /\ co[t].pc = "done"

\* C2: the step after the analysis finalizes (goes to the report without
\* counting a round) exactly when the persisted record has
\* iteration >= max_iterations or quality_score >= 0.8 or ten or more
\* key_findings, and continues (counts a round) otherwise; the coroutine's own
\* iteration counter plays no part.
C2_ContinuationPolicy ==
    [][\A t \in TaskIds :
          (co[t].pc = "decide" /\ co'[t].pc # "decide" /\ store[t] # None) =>
              LET r == store[t][1]
                  finalize == \/ r.iteration >= r.max_iterations
                              \/ r.quality_score >= 80
                              \/ Len(r.key_findings) >= 10
              IN /\ finalize <=> (/\ co'[t].step = "generate_report"
                                  /\ co'[t].iteration = co[t].iteration)
                 /\ ~finalize <=> co'[t].iteration = co[t].iteration + 1]_vars

\* finalized on the findings alone: ten findings, quality below 0.8 and
\* iterations left, and the next step is the report
C2_Witness ==
    \E t \in TaskIds :
        /\ co[t].pc = "update_get" /\ co[t].step = "generate_report"
        /\ store[t] # None
        /\ Len(store[t][1].key_findings) >= 10
        /\ store[t][1].quality_score < 80
        /\ store[t][1].iteration < store[t][1].max_iterations

\* the calls that may follow one another in a run
PipelineArrows ==
    {<<"refine_topic", "generate_questions">>,
     <<"refine_topic", "generate_report">>,
     <<"generate_questions", "execute_search">>,
     <<"execute_search", "analyze_results">>,
     <<"analyze_results", "generate_questions">>,
     <<"analyze_results", "generate_report">>}

ExpectedAgent ==
    [refine_topic |-> "agent://topic-refiner",
     generate_questions |-> "agent://question-architect",
     execute_search |-> "agent://search-strategist",
     analyze_results |-> "agent://data-analyst",
     generate_report |-> "agent://report-writer"]

\* C3: the calls of a task are issued in pipeline order: refine_topic first
\* and only first, then rounds of generate_questions, execute_search,
\* analyze_results in that order, then generate_report, after which nothing;
\* each goes to its own agent, and a call is issued only when every earlier
\* call of the task has ended.
C3_PipelineOrder ==
    \A t \in TaskIds :
        /\ Len(calls[t]) - Len(replies[t]) \in {0, 1}
        /\ \A i \in 1..Len(calls[t]) :
              /\ calls[t][i].to = ExpectedAgent[calls[t][i].action]
              /\ i = 1 => calls[t][i].action = "refine_topic"
              /\ i > 1 => <<calls[t][i - 1].action, calls[t][i].action>> \in PipelineArrows

\* two full rounds between the refinement and the report
C3_Witness ==
    \E t \in TaskIds :
        /\ Len(calls[t]) = 8
        /\ calls[t][5].action = "generate_questions"
        /\ calls[t][8].action = "generate_report"

\* C4: at most one call of a task is in flight at any moment, also while
\* another task's workflow runs in the same coordinator.
C4_OneCallInFlight ==
    \A t \in TaskIds : Cardinality({c \in inflight : c.task = t}) <= 1

\* two tasks, each with a call in flight, at the same moment
C4_Witness ==
    /\ \E c \in inflight : c.task = "t1"
    /\ \E c \in inflight : c.task = "t2"

\* the writers that did the get of a read-modify-write of the record of t
\* and not yet its set
WritersInWindow(t) ==
    (IF co[t].pc = "update_set" THEN {AGENT_URIS.coordinator} ELSE {}) \cup
    {a \in Handlers(t) : ag[a].pc \in {"update_set", "log_set"}}

\* C5: the get-then-set windows of the writers of one task's record never
\* overlap: at most one writer is between its get and its set.
C5_NoOverlappingWindows ==
    \A t \in TaskIds : Cardinality(WritersInWindow(t)) <= 1

CoordinatorStatuses ==
    {"initialized", "refining_topic", "generating_questions", "searching",
     "analyzing", "generating_report", "completed", "failed"}

\* the status each agent writes when its step is done
AgentStatuses ==
    {"topic_refined", "questions_generated", "search_completed",
     "analysis_completed", "report_completed"}

\* the status changes of a run: the coordinator's write before a step, the
\* agent's write when the step is done
AmendedArrows ==
    {<<"absent", "initialized">>,
     <<"initialized", "refining_topic">>,
     <<"refining_topic", "topic_refined">>,
     <<"topic_refined", "generating_questions">>,
     <<"topic_refined", "generating_report">>,
     <<"generating_questions", "questions_generated">>,
     <<"questions_generated", "searching">>,
     <<"searching", "search_completed">>,
     <<"search_completed", "analyzing">>,
     <<"analyzing", "analysis_completed">>,
     <<"analysis_completed", "generating_questions">>,
     <<"analysis_completed", "generating_report">>,
     <<"generating_report", "report_completed">>,
     <<"report_completed", "completed">>}

C7_FailedAbsorbing ==
    [][\A t \in TaskIds : Status(t) = "failed" => Status(t)' = "failed"]_vars

ExpectedStatus ==
    [refine_topic |-> "refining_topic",
     generate_questions |-> "generating_questions",
     execute_search |-> "searching",
     analyze_results |-> "analyzing",
     generate_report |-> "generating_report"]

\* C8: while a call is in flight the persisted current_agent is the name of
\* the agent called, and as long as the agent has not read the request the
\* persisted status is the status of the step: both were written before the
\* request was sent.
C8_CurrentAgentDuringCall ==
    \A c \in inflight :
        LET t == c.task
            call == calls[t][c.callno]
        IN /\ store[t] # None
           /\ Get(store[t][1], "current_agent", "") = Agents[call.to].name
           /\ (\E r \in reqs : r.task = t /\ r.callno = c.callno) =>
                 Status(t) = ExpectedStatus[call.action]

\* a call in flight whose agent has already written its own status
C8_Witness ==
    \E c \in inflight :
        /\ calls[c.task][c.callno].action = "execute_search"
        /\ Status(c.task) = "search_completed"

\* C9: a call whose reply is anything but an ActionResponse with
\* status=completed is the last call of the task and the workflow goes to
\* failed.
C9_OnlyCompletedSucceeds ==
    \A t \in TaskIds : \A i \in 1..Len(replies[t]) :
        ~IsCompletedResponse(replies[t][i]) =>
            /\ Len(calls[t]) = i
            /\ co[t].step = "failed"

\* C10: after a timeout of a call no further call is issued for the task,
\* and when run_workflow has returned and no handler is left working for the
\* task, the persisted status is failed and the persisted error is a
\* non-empty string.
C10_TimeoutAborts ==
    \A t \in TaskIds : \A i \in 1..Len(replies[t]) :
        replies[t][i].kind = "Timeout" =>
            /\ Len(calls[t]) = i
            /\ Quiescent(t) => Status(t) = "failed" /\ ErrorPopulated(t)

\* C11: when the connection to the agent of a step is refused, that call is
\* the last one of the task, and once run_workflow has returned the persisted
\* status is failed, the persisted error is the connect failure naming the
\* agent's URI, and current_agent is the name of the agent of that call.
C11_ConnectRefused ==
    \A t \in TaskIds : \A i \in 1..Len(replies[t]) :
        replies[t][i].kind = "ConnectError" =>
            /\ Len(calls[t]) = i
            /\ co[t].pc = "done" =>
                  /\ Status(t) = "failed"
                  /\ store[t][1].error =
                        Some("Workflow error: Cannot connect to agent " \o calls[t][i].to)
                  /\ store[t][1].current_agent = Agents[calls[t][i].to].name

\* the search strategist refuses the connection, and the run is over
C11_Witness ==
    \E t \in TaskIds :
        /\ Len(replies[t]) = 3
        /\ replies[t][3].kind = "ConnectError"
        /\ calls[t][3].to = "agent://search-strategist"
        /\ co[t].pc = "done"

\* C12: when the persisted quality_score is >= 0.8, or ten or more
\* key_findings are persisted, at the decision after an analysis, the step
\* the coordinator goes to is the report, whatever max_iterations is; and
\* from there the next call issued, if any, is generate_report.
C12_EarlyFinalize ==
    [][\A t \in TaskIds :
          /\ (/\ co[t].pc = "decide" /\ co'[t].pc # "decide"
              /\ store[t] # None
              /\ \/ store[t][1].quality_score >= 80
                 \/ Len(store[t][1].key_findings) >= 10) =>
                (co'[t].pc = "update_get" /\ co'[t].step = "generate_report")
          /\ (co[t].step = "generate_report" /\ co[t].pc # "none") =>
                /\ co'[t].step \in {"generate_report", "completed", "failed"}
                /\ calls'[t] # calls[t] =>
                      calls'[t][Len(calls'[t])].action = "generate_report"]_vars

\* quality 0.8 or more after the first round with max_iterations = 3 and
\* fewer than ten findings: the fifth call is generate_report
C12_Witness ==
    \E t \in TaskIds :
        /\ Len(calls[t]) = 5
        /\ calls[t][5].action = "generate_report"
        /\ store[t][1].max_iterations = 3
        /\ store[t][1].iteration = 1
        /\ store[t][1].quality_score >= 80
        /\ Len(store[t][1].key_findings) < 10

\* the rounds started for a task: its generate_questions calls
Rounds(t) ==
    Cardinality({i \in 1..Len(calls[t]) : calls[t][i].action = "generate_questions"})

\* every call of the task was answered by an ActionResponse with
\* status=completed
AllCompleted(t) ==
    /\ Len(replies[t]) = Len(calls[t])
    /\ \A i \in 1..Len(replies[t]) : IsCompletedResponse(replies[t][i])

\* C13: a run with max_iterations >= 1 whose calls all returned
\* status=completed consists of refine_topic, then k rounds of
\* generate_questions, execute_search, analyze_results with
\* 1 <= k <= max_iterations (k = 1 when max_iterations = 1), then
\* generate_report; it ends with status completed, a non-empty final_report
\* and a persisted iteration <= max_iterations.
C13_HappyPath ==
    \A t \in TaskIds :
        (/\ co[t].pc = "done" /\ AllCompleted(t)
         /\ store[t] # None /\ store[t][1].max_iterations >= 1) =>
            LET k == Rounds(t)
                mi == store[t][1].max_iterations
            IN /\ 1 <= k /\ k <= mi
               /\ mi = 1 => k = 1
               /\ Len(calls[t]) = 3 * k + 2
               /\ calls[t][1].action = "refine_topic"
               /\ \A j \in 1..k :
                     /\ calls[t][3 * j - 1].action = "generate_questions"
                     /\ calls[t][3 * j].action = "execute_search"
                     /\ calls[t][3 * j + 1].action = "analyze_results"
               /\ calls[t][3 * k + 2].action = "generate_report"
               /\ Status(t) = "completed"
               /\ store[t][1].final_report # ""
               /\ store[t][1].iteration <= mi

\* max_iterations = 1, five calls all completed, and the run is over
C13_Witness ==
    \E t \in TaskIds :
        /\ co[t].pc = "done" /\ AllCompleted(t)
        /\ store[t][1].max_iterations = 1
        /\ Len(calls[t]) = 5
        /\ Status(t) = "completed"

\* C14: the rounds run for a task never exceed its max_iterations; with
\* max_iterations <= 0 no round is run and the call after refine_topic is
\* generate_report.
C14_RoundsBounded ==
    \A t \in TaskIds :
        store[t] # None =>
            LET mi == store[t][1].max_iterations
            IN /\ Rounds(t) <= (IF mi < 0 THEN 0 ELSE mi)
               /\ (mi <= 0 /\ Len(calls[t]) >= 2) =>
                     calls[t][2].action = "generate_report"

\* as many rounds as max_iterations allows: three of three
C14_Witness ==
    \E t \in TaskIds :
        /\ store[t] # None
        /\ store[t][1].max_iterations = 3
        /\ Rounds(t) = 3

\* the keys of the fields of a content variant, once encoded
EncodedFields(content, by_alias) ==
    {IF by_alias THEN Alias(f) ELSE f : f \in DOMAIN content}

\* C15: the payload an encoder makes of an envelope decodes to an envelope
\* equal to it, and its content object has the discriminator, with the
\* variant's name, and every field of the variant.
C15_RoundTrip ==
    /\ (codec.pc \in {"payload", "decoded"} /\ codec.by # "client") =>
          LET content == codec.message.content
              encoded == codec.payload["content"]
              by_alias == "@type" \in DOMAIN codec.payload
              tag == IF by_alias THEN "@type" ELSE "type"
          IN /\ tag \in DOMAIN encoded
             /\ encoded[tag] = content.type
             /\ DOMAIN encoded = EncodedFields(content, by_alias)
    /\ (codec.pc = "decoded" /\ codec.by # "client") =>
          /\ codec.out.ok
          /\ codec.out.message = codec.message

\* an ActionResponse with an error, serialized by an agent's endpoint and
\* decoded again
C15_Witness ==
    /\ codec.pc = "decoded"
    /\ codec.by = "serialize_response"
    /\ codec.message.content.type = "ActionResponse"
    /\ codec.message.content.error = Some("llm unavailable")
    /\ codec.out.ok

\* the content of a payload names one of the six variants under a key
Tagged(v) ==
    \/ "@type" \in DOMAIN v /\ v["@type"] \in DOMAIN ContentFields
    \/ "type" \in DOMAIN v /\ v["type"] \in DOMAIN ContentFields

\* C16: a payload whose content has no discriminator, or one that names none
\* of the six variants, does not decode: no envelope comes out, and the
\* error is the unknown content type.
C16_UnknownContentType ==
    (codec.pc = "decoded" /\ codec.payload["content"] \in UntaggedContents) =>
        /\ ~codec.out.ok
        /\ ~Tagged(codec.payload["content"]) =>
              \E t \in {"None", "", "Ping", "actionrequest", "Message"} :
                  codec.out.error = "Unknown content type: " \o t

\* a content without any discriminator was refused
C16_Witness ==
    /\ codec.pc = "decoded"
    /\ codec.by = "client"
    /\ DOMAIN codec.payload["content"] = {"action", "parameters"}
    /\ ~codec.out.ok

\* the content of the HTTP response the client got, when it is an envelope
AnswerContent == ext.body["content"]

\* agent a has just finished the request it was serving
Responds(a) == ag[a].pc = "respond" /\ ag'[a].pc = "idle"

\* C17: when the handler of an ActionRequest raises, the agent answers with
\* an ActionResponse whose status is failed, whose error is the message of
\* the exception and whose action is the requested one; the caller gets an
\* envelope (HTTP 200), never a transport-level error.
C17_HandlerExceptionCaught ==
    [][\A a \in AgentIds :
          (Responds(a) /\ ~ag[a].plan.ok) =>
             LET r == ag[a].req
                 expected == [type |-> "ActionResponse", action |-> r.content.action,
                              result |-> EmptyDict, status |-> "failed",
                              error |-> Some(ag[a].plan.exc),
                              metadata |-> EmptyDict]
             IN IF FromClient(r)
                THEN /\ ext'.pc = "answered"
                     /\ ext'.http = 200
                     /\ A2AMessage_validate(ext'.body).ok
                     /\ A2AMessage_validate(ext'.body).message.content = expected
                ELSE [task |-> r.task, callno |-> r.callno] \in inflight
                        => /\ resp'[r.task] # None
                           /\ resp'[r.task][1].content = expected]_vars

\* the client got the failed ActionResponse of a handler that raised on a
\* missing parameter
C17_Witness ==
    /\ ext.pc = "answered"
    /\ ext.http = 200
    /\ ext.to = AGENT_URIS.search_strategist
    /\ AnswerContent["@type"] = "ActionResponse"
    /\ AnswerContent["action"] = "optimize_query"
    /\ AnswerContent["status"] = "failed"
    /\ AnswerContent["error"] = Some("query is required")

\* the request agent a serves in state s names an action a does not have
UnknownAction(a, s) ==
    s.pc # "idle" /\ s.req.content.action \notin Agents[a].actions

\* C18: an ActionRequest whose action is not in the agent's table is
\* answered with ActionResponse{status=failed, error naming the action}; the
\* agent runs no handler for it and its steps leave every task record as it
\* is.
C18_UnknownAction ==
    [][\A a \in AgentIds :
          /\ (UnknownAction(a, ag'[a]) /\ ag'[a] # ag[a]) =>
                /\ store' = store
                /\ ag'[a].pc = "respond"
                /\ ag'[a].plan =
                      Raised("Unknown action: " \o ag'[a].req.content.action)
          /\ (UnknownAction(a, ag[a]) /\ ag'[a] # ag[a]) =>
                /\ store' = store
                /\ ag'[a].pc = "idle"
                /\ ext'.pc = "answered"
                /\ ext'.http = 200
                /\ ext'.body["content"]["@type"] = "ActionResponse"
                /\ ext'.body["content"]["status"] = "failed"
                /\ ext'.body["content"]["error"] =
                      Some("Unknown action: " \o ag[a].req.content.action)]_vars

\* the report writer answered a request for an action it does not have
\* while the record of a task was in the store
C18_Witness ==
    /\ ext.pc = "answered"
    /\ ext.to = AGENT_URIS.report_writer
    /\ ext.http = 200
    /\ AnswerContent["@type"] = "ActionResponse"
    /\ AnswerContent["error"] = Some("Unknown action: ping")
    /\ store["t1"] # None

\* C19: a payload posted to /message that cannot be decoded is answered
\* with an Error envelope, code UNSUPPORTED_MESSAGE_TYPE, addressed to the
\* sender, reply_to the id of the payload.
C19_DecodeErrorEnvelope ==
    (ext.pc = "answered" /\ ~A2AMessage_validate(ext.payload).ok) =>
        /\ ext.http = 200
        /\ AnswerContent["@type"] = "Error"
        /\ AnswerContent["code"] = "UNSUPPORTED_MESSAGE_TYPE"
        /\ ext.body["to"] = ext.payload["from"]
        /\ ext.body["reply_to"] = Some(ext.payload["id"])

\* the contents that are answers or notifications, not requests
PushVariants == {"ActionResponse", "Error", "StatusUpdate"}

\* C20: an envelope whose content is an ActionResponse, an Error or a
\* StatusUpdate is answered with an Error envelope, code
\* UNSUPPORTED_MESSAGE_TYPE, addressed to the sender; the agent runs no
\* handler and changes no task record.
C20_PushVariantsRejected ==
    [][\A a \in AgentIds :
          LET decoded == A2AMessage_validate(ext.payload)
          IN (/\ ext.pc = "posted"
              /\ ext.to = a
              /\ ext' # ext
              /\ decoded.ok
              /\ decoded.message.content.type \in PushVariants) =>
                /\ ag'[a] = ag[a]
                /\ store' = store
                /\ ext'.pc = "answered"
                /\ ext'.http = 200
                /\ ext'.body["content"]["@type"] = "Error"
                /\ ext'.body["content"]["code"] = "UNSUPPORTED_MESSAGE_TYPE"
                /\ ext'.body["to"] = decoded.message.from_agent
                /\ ext'.body["from"] = a
                /\ ext'.body["reply_to"] = Some(decoded.message.id)]_vars

\* the search strategist answered a client's ActionResponse while the record
\* of a task was in the store
C20_Witness ==
    /\ ext.pc = "answered"
    /\ ext.to = AGENT_URIS.search_strategist
    /\ ext.payload["content"]["@type"] = "ActionResponse"
    /\ ext.http = 200
    /\ AnswerContent["@type"] = "Error"
    /\ store["t1"] # None

\* C21: an envelope whose content is a CapabilityRequest is answered with a
\* CapabilityResponse listing the agent's own capabilities, its agent
\* descriptor carrying the agent's id; the agent runs no handler and changes
\* no task record.
C21_CapabilityRequest ==
    [][\A a \in AgentIds :
          LET decoded == A2AMessage_validate(ext.payload)
          IN (/\ ext.pc = "posted"
              /\ ext.to = a
              /\ ext' # ext
              /\ decoded.ok
              /\ decoded.message.content.type = "CapabilityRequest") =>
                /\ ag'[a] = ag[a]
                /\ store' = store
                /\ ext'.pc = "answered"
                /\ ext'.http = 200
                /\ ext'.body["content"]["@type"] = "CapabilityResponse"
                /\ ext'.body["content"]["capabilities"] = get_capabilities(a)
                /\ {ext'.body["content"]["capabilities"][i]
                       : i \in 1..Len(get_capabilities(a))} = Agents[a].actions
                /\ ext'.body["content"]["agent"].id = a]_vars

\* the search strategist answered a CapabilityRequest with its two
\* capabilities while the record of a task was in the store
C21_Witness ==
    /\ ext.pc = "answered"
    /\ ext.to = AGENT_URIS.search_strategist
    /\ ext.http = 200
    /\ AnswerContent["@type"] = "CapabilityResponse"
    /\ Len(AnswerContent["capabilities"]) = 2
    /\ store["t1"] # None

\* envelope e answers the inbound envelope (its id and its sender) on behalf
\* of agent a, under an id no envelope has had so far
AnswersTo(e, inbound_id, sender, a) ==
    /\ e.reply_to = Some(inbound_id)
    /\ e.from_agent = a
    /\ e.to = sender
    /\ e.id # inbound_id
    /\ e.id \notin created

\* C22: every response envelope an agent produces (CapabilityResponse,
\* ActionResponse completed or failed, Error) has reply_to = the id of the
\* inbound envelope, from = the agent, to = the inbound sender, and an id
\* that differs from the inbound id and from the id of every other envelope
\* created in the run.
C22_ResponseEnvelope ==
    [][\A a \in AgentIds :
          /\ Responds(a) =>
                LET r == ag[a].req
                IN /\ FromClient(r) =>
                        /\ ext'.http = 200
                        /\ A2AMessage_validate(ext'.body).ok
                        /\ AnswersTo(A2AMessage_validate(ext'.body).message,
                                     r.id, r.from, a)
                        /\ ext'.body["id"] \in created'
                   /\ (~FromClient(r) /\ resp'[r.task] # resp[r.task]) =>
                        /\ AnswersTo(resp'[r.task][1], r.id, r.from, a)
                        /\ resp'[r.task][1].id \in created'
          /\ (ext.pc = "posted" /\ ext.to = a /\ ext'.pc = "answered"
                /\ ext'.http = 200) =>
                /\ A2AMessage_validate(ext'.body).ok
                /\ AnswersTo(A2AMessage_validate(ext'.body).message,
                             ext.payload["id"], ext.payload["from"], a)
                /\ ext'.body["id"] \in created']_vars

\* the client's second POST got an envelope in answer, after the coordinator
\* and the agents had exchanged envelopes of their own
C22_Witness ==
    /\ ext.pc = "answered"
    /\ ext.n = 2
    /\ ext.http = 200
    /\ ext.body["reply_to"] = Some(ext.payload["id"])
    /\ ext.body["id"] # ext.payload["id"]
    /\ Len(replies["t1"]) >= 1
    /\ Cardinality(created) >= 5

\* C23: every ActionResponse an agent emits carries a populated result when
\* its status is completed, and a present, non-empty error when its status
\* is failed, whatever the handler did, an exception with an empty message
\* included.
C23_ActionResponseInvariant ==
    \A t \in TaskIds :
        (resp[t] # None /\ resp[t][1].content.type = "ActionResponse") =>
            LET content == resp[t][1].content
            IN /\ content.status = "completed" => content.result # EmptyDict
               /\ content.status = "failed" =>
                     content.error # None /\ content.error # Some("")

\* the agent URIs run_workflow calls
PipelineUris == {run_workflow_steps[action].agent_uri : action \in Actions}

Agrees(action, result, state) ==
    CASE action = "refine_topic" ->
            Get(state, "topic", "") = result.refined_topic
      [] action = "generate_questions" ->
            Len(Get(state, "research_questions", <<>>)) = result.total_questions
      [] action = "execute_search" ->
            Len(Get(state, "search_results", <<>>)) = result.total_results
      [] action = "analyze_results" ->
            /\ Get(state, "quality_score", 0) = result.quality_score
            /\ Len(Get(state, "key_findings", <<>>)) = result.total_findings
      [] action = "generate_report" ->
            Get(state, "final_report", "") = result.report

\* the last entry of the record's agent_logs is by agent a
LoggedLast(a, state) ==
    LET logs == Get(state, "agent_logs", <<>>)
    IN logs # <<>> /\ logs[Len(logs)].agent_id = a

\* C25: an agent hands its response for a step to the coordinator only when
\* its writes for the step (update_state, add_log) are in the store; the
\* request of the next step is sent only when that response has been
\* received; and the record the next step's handler reads first holds every
\* write of the step before.
C25_WritesVisibleToNextStep ==
    [][\A t \in TaskIds :
          /\ (resp[t] = None /\ resp'[t] # None
                /\ resp'[t][1].content.status = "completed") =>
                /\ store[t] # None
                /\ Agrees(resp'[t][1].content.action,
                          resp'[t][1].content.result, store[t][1])
                /\ LoggedLast(resp'[t][1].from_agent, store[t][1])
          /\ Len(calls'[t]) > Len(calls[t]) =>
                /\ Len(replies[t]) = Len(calls[t])
                /\ \A i \in 1..Len(replies[t]) : IsCompletedResponse(replies[t][i])
          /\ \A a \in AgentIds :
                (ag[a].pc = "idle" /\ ag'[a].pc # "idle" /\ ag'[a].req.task = t
                  /\ ag'[a].req.callno > 1) =>
                   LET n == ag'[a].req.callno
                   IN /\ store[t] # None
                      /\ Agrees(calls[t][n - 1].action, replies[t][n - 1].result,
                                store[t][1])
                      /\ LoggedLast(calls[t][n - 1].to, store[t][1])]_vars

\* the search strategist has read the record for the third call and found
\* the questions the question architect wrote in the second
C25_Witness ==
    /\ ag[AGENT_URIS.search_strategist].pc # "idle"
    /\ ag[AGENT_URIS.search_strategist].req.callno = 3
    /\ replies["t1"][2].result.total_questions = 2
    /\ ag[AGENT_URIS.search_strategist].plan.ok
    /\ ag[AGENT_URIS.search_strategist].plan.result.queries_processed = 2

\* the lists a task accumulates
ListFields ==
    {"research_questions", "search_queries", "search_results", "key_findings",
     "agent_logs"}

\* C26: start_research writes the record (status initialized, every list
\* empty, iteration 0, no error) and schedules the workflow without any
\* agent call; from then on GET /task/{task_id} returns the record, never
\* 404, and GET /task/{id} of an id without a record returns 404.
C26_StartResearch ==
    [][\A t \in TaskIds :
          /\ (co[t].pc = "none" /\ co'[t].pc # "none") =>
                /\ co'[t].pc = "begin"
                /\ calls'[t] = <<>> /\ reqs' = reqs /\ inflight' = inflight
                /\ get_task_status(t).http = 404
                /\ store'[t] # None
                /\ store'[t][1].task_id = t
                /\ store'[t][1].status = "initialized"
                /\ \A f \in ListFields : store'[t][1][f] = <<>>
                /\ store'[t][1].iteration = 0
                /\ store'[t][1].error = None
          /\ co[t].pc # "none" =>
                /\ get_task_status(t).http = 200
                /\ get_task_status(t).body = store[t][1]
                /\ get_task_status(t).body.task_id = t
          /\ store[t] = None => get_task_status(t).http = 404]_vars

\* start_research has returned and the workflow has not run yet: the record
\* of the task is served, an id without a record is not
C26_Witness ==
    /\ co["t1"].pc = "begin"
    /\ get_task_status("t1").http = 200
    /\ get_task_status("t1").body.status = "initialized"
    /\ get_task_status("t2").http = 404

\* C27: the terminal status is the coordinator's: no step of an agent
\* changes the persisted status to completed or failed, and the persisted
\* status is completed only if the calls of the task, from refine_topic to
\* generate_report, were all answered with an ActionResponse completed.
C27_TerminalStatusOwnership ==
    [][\A t \in TaskIds :
          /\ (ag' # ag /\ Status(t)' # Status(t)) =>
                Status(t)' \notin {"completed", "failed"}
          /\ Status(t)' = "completed" =>
                /\ Len(calls'[t]) >= 2
                /\ calls'[t][1].action = "refine_topic"
                /\ calls'[t][Len(calls'[t])].action = "generate_report"
                /\ Len(replies'[t]) = Len(calls'[t])
                /\ \A i \in 1..Len(replies'[t]) :
                      IsCompletedResponse(replies'[t][i])]_vars

\* sequence s is the beginning of sequence q
IsPrefix(s, q) == Len(s) <= Len(q) /\ \A i \in 1..Len(s) : s[i] = q[i]

\* the step that owns each accumulated field of a record
FieldOwner ==
    [topic |-> "refine_topic", research_questions |-> "generate_questions",
     search_queries |-> "execute_search", search_results |-> "execute_search",
     iteration |-> "execute_search", key_findings |-> "analyze_results",
     quality_score |-> "analyze_results", final_report |-> "generate_report"]

\* this step is one of the handler of action working on task t
StepOfHandler(t, action) ==
    \E a \in AgentIds :
        /\ ag'[a] # ag[a]
        /\ ag[a].pc # "idle"
        /\ ag[a].req.task = t
        /\ ag[a].req.content.action = action

\* C28: each accumulated field of a record changes only in a step of the
\* handler that owns it; original_topic, max_iterations and task_id never
\* change after creation; the accumulated lists only grow.
C28_FieldOwnership ==
    [][\A t \in TaskIds :
          (store[t] # None /\ store'[t] # None) =>
             LET old == store[t][1]
                 new == store'[t][1]
             IN /\ \A f \in DOMAIN FieldOwner :
                      new[f] # old[f] => StepOfHandler(t, FieldOwner[f])
                /\ \A f \in {"original_topic", "max_iterations", "task_id"} :
                      new[f] = old[f]
                /\ \A f \in ListFields \ {"agent_logs"} :
                      IsPrefix(old[f], new[f])]_vars

\* record new is record previous with exactly the keys of updates replaced
Merged(previous, updates, new) ==
    /\ DOMAIN new = DOMAIN previous \cup DOMAIN updates
    /\ \A key \in DOMAIN updates : new[key] = updates[key]
    /\ \A key \in DOMAIN previous \ DOMAIN updates : new[key] = previous[key]

AgentLogs(t) == IF store[t] = None THEN <<>> ELSE Get(store[t][1], "agent_logs", <<>>)

\* C30: agent_logs is append-only: after every write to the record by any
\* writer the new agent_logs has the previous one as a prefix, and a handler
\* that returns completed after saving has appended exactly one entry, which
\* names its agent.
C30_LogsAppendOnly ==
    [][\A t \in TaskIds :
          /\ IsPrefix(AgentLogs(t), AgentLogs(t)')
          /\ \A a \in AgentIds :
                (ag[a].pc = "log_set" /\ ag'[a].pc = "respond"
                  /\ HandlerTask(a) = t) =>
                   /\ Len(AgentLogs(t)') = Len(ag[a].rmw[1].agent_logs) + 1
                   /\ AgentLogs(t)'[Len(AgentLogs(t)')].agent_id = a
                   /\ AgentLogs(t)'[Len(AgentLogs(t)')].agent = Agents[a].name]_vars

\* the keys of the record start_research creates
RecordKeys == DOMAIN initial_state("", "", 0)

\* this step is the set of the update_state of the except clause of
\* run_workflow for task t
RecordsFailure(t) ==
    co[t].pc = "update_set" /\ co[t].step = "failed" /\ co'[t].pc = "done"

\* C31: when the coordinator records a failure, only status and error of
\* the task record change: every other field keeps the value it had in the
\* store before the write, and the failed record has the keys of the record
\* start_research created, which a completed record has too.
C31_FailureFrame ==
    [][\A t \in TaskIds :
          RecordsFailure(t) =>
             /\ store[t] # None
             /\ store'[t][1].status = "failed"
             /\ store'[t][1].error = Some(co[t].error_msg)
             /\ DOMAIN store'[t][1] = RecordKeys
             /\ \A key \in RecordKeys \ {"status", "error"} :
                   store'[t][1][key] = store[t][1][key]]_vars

\* start_research has just returned: the record is written and run_workflow
\* is scheduled
Started(t) == co[t].pc = "begin"

\* C32: every workflow terminates: when every awaited agent call ends with
\* a response, a connection error or a timeout, every started task reaches
\* the persisted status completed or failed, whatever max_iterations, the
\* quality scores and the findings are.
C32_WorkflowTerminates ==
    \A t \in TaskIds : Started(t) ~> Status(t) \in {"completed", "failed"}

\* a task started with the largest max_iterations went through that many
\* rounds, none of which met a threshold, and is completed
C32_Witness ==
    /\ co["t1"].pc = "done"
    /\ Status("t1") = "completed"
    /\ store["t1"][1].max_iterations = MaxIter
    /\ Len(SelectSeq(calls["t1"], LAMBDA c : c.action = "execute_search")) = MaxIter

\* request r is for a task-bound action and names no task, or a task that
\* has no record
NoRecordFor(r) ==
    /\ r.content.type = "ActionRequest"
    /\ r.content.action \in Actions
    /\ LET task_id == Get(r.content.parameters, "task_id", "")
       IN \/ task_id \notin TaskIds
          \/ store[task_id] = None

\* C33: when an agent handles one of the five task-bound actions and the
\* task has no record, or the parameters carry no task_id, the agent answers
\* with an ActionResponse whose status is failed, and from the request to
\* the answer it creates no record and changes none.
C33_MissingRecord ==
    [][\A a \in AgentIds :
          /\ (ag[a].pc = "idle" /\ ag'[a].pc # "idle" /\ NoRecordFor(ag'[a].req)) =>
                /\ ag'[a].pc = "respond"
                /\ ~ag'[a].plan.ok
                /\ store' = store
          /\ (Responds(a) /\ FromClient(ag[a].req) /\ NoRecordFor(ag[a].req)) =>
                /\ store' = store
                /\ ext'.http = 200
                /\ ext'.body["content"]["@type"] = "ActionResponse"
                /\ ext'.body["content"]["status"] = "failed"
                /\ ext'.body["content"]["result"] = EmptyDict]_vars

\* the report writer was asked for the report of a task that has no record
\* while another task has one: it answered failed, and there is still no
\* record for that task
C33_Witness ==
    /\ ext.pc = "answered"
    /\ ext.to = AGENT_URIS.report_writer
    /\ AnswerContent["status"] = "failed"
    /\ AnswerContent["error"] = Some("Task not found: t2")
    /\ store["t2"] = None
    /\ store["t1"] # None

\* run_workflow found no record under the task id: its get_state returned
\* None
FoundNoRecord(t) == co[t].pc \notin {"none", "begin"} /\ co[t].state = None

\* C34: when run_workflow runs for a task id that has no record, the
\* coordinator issues no agent call for the task, and when the run is over
\* the persisted status is failed.
C34_NoRecordAtCoordinator ==
    \A t \in TaskIds :
        FoundNoRecord(t) =>
            /\ calls[t] = <<>>
            /\ co[t].pc = "done" => Status(t) = "failed"

\* the persisted iteration counter of a task (0 when there is none)
Iteration(t) == IF store[t] = None THEN 0 ELSE Get(store[t][1], "iteration", 0)

\* the execute_search calls of a task that were answered completed
SearchesCompleted(t) ==
    Cardinality({i \in 1..Len(replies[t]) :
                    /\ calls[t][i].action = "execute_search"
                    /\ IsCompletedResponse(replies[t][i])})

\* C35: the persisted iteration changes only in a step of the execute_search
\* handler of the task, which adds exactly one to it; so when the
\* continuation policy is consulted, and when the run is over and nothing is
\* left working on the task, it equals the number of execute_search calls
\* that were answered completed.
C35_IterationCounter ==
    [][\A t \in TaskIds :
          /\ Iteration(t)' # Iteration(t) =>
                /\ StepOfHandler(t, "execute_search")
                /\ Iteration(t)' = Iteration(t) + 1
          /\ (co'[t].pc = "decide" \/ Quiescent(t)') =>
                Iteration(t)' = SearchesCompleted(t)']_vars

NoDuplicates(seq) == \A i, j \in 1..Len(seq) : seq[i] = seq[j] => i = j

\* the questions of the searches that gave results, in the order tried
Succeeded(tried) ==
    LET hits == SelectSeq(tried, LAMBDA x : x.outcome # None)
    IN [i \in 1..Len(hits) |-> hits[i].question]

\* what one run of the for loop of _execute_search did, given the
\* research_questions and search_queries of the record it started from
SearchedOnce(research_questions, search_queries, acc) ==
    /\ \A i \in 1..Len(acc.tried) : ~InSeq(acc.tried[i].question, search_queries)
    /\ \A i, j \in 1..Len(acc.tried) :
          (i < j /\ acc.tried[i].question = acc.tried[j].question) =>
             acc.tried[i].outcome = None
    /\ \A k \in 1..Len(research_questions) :
          ~InSeq(research_questions[k], search_queries) =>
             \E i \in 1..Len(acc.tried) :
                acc.tried[i].question = research_questions[k]
    /\ acc.search_queries = search_queries \o Succeeded(acc.tried)
    /\ acc.queries_processed = Len(Succeeded(acc.tried))

\* the search strategist takes an execute_search request for a task that
\* has a record
TakesSearch(a) ==
    /\ ag[a].pc = "idle" /\ ag'[a].pc # "idle"
    /\ a = AGENT_URIS.search_strategist
    /\ ag'[a].req.content.action = "execute_search"
    /\ ag'[a].req.task \in TaskIds
    /\ store[ag'[a].req.task] # None

\* C36: in execute_search a search that raises does not fail the step: the
\* handler goes on to save and answer completed; a question is searched
\* exactly when it is not in search_queries, so one whose search failed is
\* searched again in the next round and one already in search_queries never
\* is; search_queries grows by the questions whose search gave results, has
\* no duplicates and holds only questions of research_questions.
C36_SearchFailureTolerated ==
    [][/\ \A a \in AgentIds :
            TakesSearch(a) =>
               LET r == ag'[a].req
                   state == store[r.task][1]
                   loops == SearchLoop(Get(state, "research_questions", <<>>), 1,
                                       SearchStart(state),
                                       SearchOutcomes(r.content.parameters, Inputs))
               IN /\ \A acc \in loops :
                        SearchedOnce(Get(state, "research_questions", <<>>),
                                     Get(state, "search_queries", <<>>), acc)
                  /\ ag'[a].plan.ok \/ ag'[a].plan.exc \in Inputs.store_errors
                  /\ ag'[a].plan.ok =>
                        \E acc \in loops :
                           /\ ag'[a].plan.updates.search_queries = acc.search_queries
                           /\ ag'[a].plan.result.queries_processed = acc.queries_processed
       /\ \A t \in TaskIds :
            store'[t] # None =>
               /\ NoDuplicates(store'[t][1].search_queries)
               /\ \A i \in 1..Len(store'[t][1].search_queries) :
                     InSeq(store'[t][1].search_queries[i],
                           store'[t][1].research_questions)]_vars

\* every search of the first round failed and the step was answered
\* completed; the second round searched the question again, with results
C36_Witness ==
    \E i, j \in 1..Len(replies["t1"]) :
        /\ i < j
        /\ calls["t1"][i].action = "execute_search"
        /\ calls["t1"][j].action = "execute_search"
        /\ IsCompletedResponse(replies["t1"][i])
        /\ IsCompletedResponse(replies["t1"][j])
        /\ replies["t1"][i].result.queries_processed = 0
        /\ replies["t1"][j].result.queries_processed > 0
        /\ InSeq("q1", store["t1"][1].search_queries)

\* this step belongs to task t: start_research for it, a step of its
\* coroutine, or a step of a handler serving a request made for it
StepFor(t) ==
    \/ co'[t] # co[t]
    \/ \E a \in AgentIds :
          /\ ag'[a] # ag[a]
          /\ \/ ag[a].pc # "idle" /\ ag[a].req.task = t
             \/ ag'[a].pc # "idle" /\ ag'[a].req.task = t

\* the call run_workflow issues after a call of `action` was answered
\* completed with `result`, when `searches` execute_search calls were
\* answered completed so far ("" when it issues none): what a task running
\* alone does with these outcomes
FollowUp(action, result, searches, max_iterations) ==
    CASE action = "refine_topic" -> LoopTest(0, max_iterations)
      [] action = "generate_questions" -> "execute_search"
      [] action = "execute_search" -> "analyze_results"
      [] action = "analyze_results" ->
            IF \/ searches >= max_iterations
               \/ result.quality_score >= QUALITY_THRESHOLD
               \/ result.total_findings >= FINDINGS_THRESHOLD
            THEN "generate_report"
            ELSE LoopTest(searches, max_iterations)
      [] action = "generate_report" -> ""

\* the execute_search calls among the first n calls of a task
SearchCalls(t, n) ==
    Cardinality({k \in 1..n : calls[t][k].action = "execute_search"})

\* C37: concurrent workflows of different tasks do not interfere: a step
\* changes at most the record of one task, and only a step made for a task
\* (its start, its coroutine, a handler serving its request) changes that
\* task's record, its coroutine, its calls or its replies; and the calls of
\* a task are those its own outcomes lead to: the first is refine_topic and
\* each later one follows from the answer to the one before.
C37_TasksIndependent ==
    [][\A t \in TaskIds :
          /\ (store'[t] # store[t] \/ calls'[t] # calls[t]
                \/ replies'[t] # replies[t] \/ resp'[t] # resp[t]) => StepFor(t)
          /\ \A u \in TaskIds \ {t} :
                ~(store'[t] # store[t] /\ store'[u] # store[u])
          /\ \A i \in 1..Len(calls'[t]) :
                IF i = 1 THEN calls'[t][i].action = "refine_topic"
                ELSE /\ IsCompletedResponse(replies'[t][i - 1])
                     /\ calls'[t][i].action =
                           FollowUp(calls'[t][i - 1].action,
                                    replies'[t][i - 1].result,
                                    SearchCalls(t, i - 1)',
                                    store'[t][1].max_iterations)]_vars

\* two handlers work at the same time for different tasks: the strategist
\* is between the get and the set of its update_state for one task, the
\* refiner between those of its update_state for the other
C37_Witness ==
    /\ ag[AGENT_URIS.search_strategist].pc = "update_set"
    /\ ag[AGENT_URIS.search_strategist].req.task = "t1"
    /\ ag[AGENT_URIS.topic_refiner].pc = "update_set"
    /\ ag[AGENT_URIS.topic_refiner].req.task = "t2"
    /\ co["t1"].pc = "await"
    /\ co["t2"].pc = "await"

\* C38: completed is terminal: once the persisted status of a task is
\* completed, no step of the coordinator or of an agent changes the task's
\* record, and no further agent call is issued for the task.
C38_CompletedTerminal ==
    [][\A t \in TaskIds :
          Status(t) = "completed" =>
             /\ store'[t] = store[t]
             /\ calls'[t] = calls[t]
             /\ \A r \in reqs' : r.task # t
             /\ Handlers(t)' = {}]_vars

\* one task is completed, with its report, while the workflow of the other
\* goes on: a handler is about to write that one's record
C38_Witness ==
    /\ Status("t1") = "completed"
    /\ store["t1"][1].final_report # ""
    /\ co["t1"].pc = "done"
    /\ co["t2"].pc = "await"
    /\ \E a \in AgentIds : ag[a].pc = "update_set" /\ ag[a].req.task = "t2"

====
